---- MODULE Spec2Model ----
(***************************************************************************)
(* A model of the rule-engine path of the obligation-to-action agent:      *)
(*   app/policy/dsl.py       rule_from_clause, _guess_event                *)
(*   app/policy/store.py     write_policy_bundle, load_rules,              *)
(*                           build_index, get_rules_for                    *)
(*   app/agents/validator.py _json_get, _as_number, _compare,              *)
(*                           RuleValidator.run                             *)
(*   app/graph/build.py      node_compile, node_validate,                  *)
(*                           node_explain_emit                             *)
(*   app/server.py           post_fact, list_violations,                   *)
(*                           set_violation_status, stream_violations       *)
(*                                                                         *)
(* Python values are tagged records [t, v].  A Python str is the sequence  *)
(* of its characters, so that strip, lower, endswith, replace, the         *)
(* substring test and float() are computed and not assumed.  A Python      *)
(* number is a fixed-point integer counting units of 1/Scale (0.0175 is    *)
(* 17500); int and float are not told apart (Python compares them by       *)
(* value).  Time stamps (generated_at, detected_at, policy_id) are left    *)
(* out: no operation of the program reads them back.                       *)
(***************************************************************************)
EXTENDS Integers, Sequences, FiniteSets, TLC

VARIABLES
    policy_yaml,   \* out/policy.yaml: [exists, rules] (rules: the YAML nodes of "rules")
    rules_index,   \* out/rules_index.json: [exists, index]
    vios,          \* out/violations.jsonl: the lines of the ledger file, in file order
    state_json,    \* out/violations_state.json: [exists, map] (violation id -> status)
    wpc,           \* write_policy_bundle in progress: "idle", "opened", "dumped"
    wrules,        \* the rules the write in progress was called with
    subs,          \* one event_gen per subscriber: [pc, tail, last_pos, size, out, ..]
    resp,          \* the outcome of the last completed request or call
    hist,          \* history: what was written, appended and set so far
    calls          \* requests served step by step in the thread pool

vars == <<policy_yaml, rules_index, vios, state_json, wpc, wrules, subs, resp, hist,
          calls>>

-----------------------------------------------------------------------------
(* Python values *)

Scale == 10 ^ 6

Null == [t |-> "null", v |-> 0]
Bool(b) == [t |-> "bool", v |-> b]
Num(n) == [t |-> "num", v |-> n]
Str(s) == [t |-> "str", v |-> s]
List(l) == [t |-> "list", v |-> l]
Dict(f) == [t |-> "dict", v |-> f]

\* The characters the model's strings are made of, in ASCII order.
Ascii ==
    <<" ", "!", "$", "%", "'", "+", ",", "-", ".",
      "0", "1", "2", "3", "4", "5", "6", "7", "8", "9", ":", "=",
      "A", "B", "C", "D", "E", "F", "G", "H", "I", "J", "K", "L", "M",
      "N", "O", "P", "Q", "R", "S", "T", "U", "V", "W", "X", "Y", "Z", "[", "]", "_",
      "a", "b", "c", "d", "e", "f", "g", "h", "i", "j", "k", "l", "m",
      "n", "o", "p", "q", "r", "s", "t", "u", "v", "w", "x", "y", "z", "~">>

Ord(c) == CHOOSE i \in 1..Len(Ascii) : Ascii[i] = c

Upper == <<"A", "B", "C", "D", "E", "F", "G", "H", "I", "J", "K", "L", "M",
           "N", "O", "P", "Q", "R", "S", "T", "U", "V", "W", "X", "Y", "Z">>

LowerOf == <<"a", "b", "c", "d", "e", "f", "g", "h", "i", "j", "k", "l", "m",
             "n", "o", "p", "q", "r", "s", "t", "u", "v", "w", "x", "y", "z">>

LowerChar(c) ==
    IF \E i \in 1..Len(Upper) : Upper[i] = c
    THEN LowerOf[CHOOSE i \in 1..Len(Upper) : Upper[i] = c]
    ELSE c

\* str.lower()
Lower(s) == [i \in 1..Len(s) |-> LowerChar(s[i])]

\* str.strip(): leading and trailing white space removed
RECURSIVE LStrip(_)
LStrip(s) == IF s # <<>> /\ Head(s) = " " THEN LStrip(Tail(s)) ELSE s

RECURSIVE RStrip(_)
RStrip(s) ==
    IF s # <<>> /\ s[Len(s)] = " " THEN RStrip(SubSeq(s, 1, Len(s) - 1)) ELSE s

Strip(s) == RStrip(LStrip(s))

\* str.endswith(suffix), str.startswith(prefix)
EndsWith(s, suf) ==
    Len(s) >= Len(suf) /\ SubSeq(s, Len(s) - Len(suf) + 1, Len(s)) = suf

StartsWith(s, pre) == Len(s) >= Len(pre) /\ SubSeq(s, 1, Len(pre)) = pre

\* str.replace(c, ""): every occurrence of the character c removed
RemoveChar(s, c) == SelectSeq(s, LAMBDA x : x # c)

\* str.replace(a, b) for single characters
ReplaceChar(s, a, b) == [i \in 1..Len(s) |-> IF s[i] = a THEN b ELSE s[i]]

\* sub in s, for strings
SubStr(sub, s) ==
    \E i \in 0..(Len(s) - Len(sub)) : SubSeq(s, i + 1, i + Len(sub)) = sub

Digits == {"0", "1", "2", "3", "4", "5", "6", "7", "8", "9"}

DigitVal(c) == Ord(c) - Ord("0")

RECURSIVE DigitsVal(_)
DigitsVal(s) ==
    IF s = <<>> THEN 0
    ELSE 10 * DigitsVal(SubSeq(s, 1, Len(s) - 1)) + DigitVal(s[Len(s)])

\* float(s) for the decimal literals [sign] digits [. digits] | [sign] . digits,
\* white space around them allowed; Null stands for ValueError.  Exponents,
\* inf, nan and digit-group underscores are outside the model's strings.
ParseFloat(s0) ==
    LET Mag(ip, fp) == DigitsVal(ip) * Scale + (DigitsVal(fp) * Scale) \div (10 ^ Len(fp))
        SplitAt(body, d) == Mag(SubSeq(body, 1, d - 1), SubSeq(body, d + 1, Len(body)))
        WellFormed(body, dots) ==
            /\ \A i \in 1..Len(body) : body[i] \in Digits \cup {"."}
            /\ Cardinality(dots) <= 1
            /\ \E i \in 1..Len(body) : body[i] \in Digits
        Signed(mag, neg) == Num(IF neg THEN 0 - mag ELSE mag)
        Value(body, dots, neg) ==
            IF ~WellFormed(body, dots) THEN Null
            ELSE Signed(SplitAt(body, IF dots = {} THEN Len(body) + 1
                                      ELSE CHOOSE i \in dots : TRUE), neg)
        Body(body, neg) == Value(body, {i \in 1..Len(body) : body[i] = "."}, neg)
        Stripped(s) ==
            IF s # <<>> /\ s[1] \in {"-", "+"} THEN Body(Tail(s), s[1] = "-")
            ELSE Body(s, FALSE)
    IN  Stripped(Strip(s0))

\* The number a Python int, float or bool stands for.
NumVal(a) == IF a.t = "bool" THEN (IF a.v THEN Scale ELSE 0) ELSE a.v

IsNumeric(a) == a.t \in {"num", "bool"}

\* bool(a)
Truthy(a) ==
    CASE a.t = "null" -> FALSE
      [] a.t = "bool" -> a.v
      [] a.t = "num" -> a.v # 0
      [] a.t = "str" -> a.v # <<>>
      [] a.t = "list" -> a.v # <<>>
      [] a.t = "dict" -> DOMAIN a.v # {}
      [] OTHER -> TRUE

\* a == b on scalars
ScalarEq(a, b) ==
    IF IsNumeric(a) /\ IsNumeric(b) THEN NumVal(a) = NumVal(b)
    ELSE a.t = b.t /\ a.t \in {"null", "str"} /\ a.v = b.v

\* a == b (lists hold scalars; dicts are compared key by key)
PyEq(a, b) ==
    CASE a.t = "list" /\ b.t = "list" ->
            /\ Len(a.v) = Len(b.v)
            /\ \A i \in 1..Len(a.v) : ScalarEq(a.v[i], b.v[i])
      [] a.t = "dict" /\ b.t = "dict" ->
            /\ DOMAIN a.v = DOMAIN b.v
            /\ \A k \in DOMAIN a.v : ScalarEq(a.v[k], b.v[k])
      [] a.t \in {"list", "dict"} \/ b.t \in {"list", "dict"} -> FALSE
      [] OTHER -> ScalarEq(a, b)

\* The three outcomes of evaluating a Python expression to a bool.
PyTrue == "true"
PyFalse == "false"
PyRaise == "raise"

PyBool(b) == IF b THEN PyTrue ELSE PyFalse

\* A negation that leaves its operand as it is; C2 fails of it.
PyNot_Kept(r) == r
PyNot(r) == IF r = PyRaise THEN PyRaise ELSE PyBool(r = PyFalse)

\* Lexicographic order of two strings: "lt", "eq" or "gt".
RECURSIVE StrCmp(_, _)
StrCmp(s, u) ==
    CASE s = <<>> /\ u = <<>> -> "eq"
      [] s = <<>> -> "lt"
      [] u = <<>> -> "gt"
      [] Ord(Head(s)) < Ord(Head(u)) -> "lt"
      [] Ord(Head(s)) > Ord(Head(u)) -> "gt"
      [] OTHER -> StrCmp(Tail(s), Tail(u))

\* The order of two scalars: "lt", "eq", "gt", or "raise" for the TypeError of
\* an unordered pair of types.
ScalarCmp(a, b) ==
    CASE IsNumeric(a) /\ IsNumeric(b) ->
            IF NumVal(a) < NumVal(b) THEN "lt"
            ELSE IF NumVal(a) > NumVal(b) THEN "gt" ELSE "eq"
      [] a.t = "str" /\ b.t = "str" -> StrCmp(a.v, b.v)
      [] OTHER -> PyRaise

\* The order of two lists of scalars (the first differing pair decides).
RECURSIVE ListCmp(_, _)
ListCmp(l, m) ==
    CASE l = <<>> /\ m = <<>> -> "eq"
      [] l = <<>> -> "lt"
      [] m = <<>> -> "gt"
      [] ScalarEq(Head(l), Head(m)) -> ListCmp(Tail(l), Tail(m))
      [] OTHER -> ScalarCmp(Head(l), Head(m))

PyCmp(a, b) ==
    IF a.t = "list" /\ b.t = "list" THEN ListCmp(a.v, b.v)
    ELSE IF a.t \in {"list", "dict"} \/ b.t \in {"list", "dict"} THEN PyRaise
    ELSE ScalarCmp(a, b)

\* A strict "<=": C1 fails of it.
PyLe_Strict(a, b) ==
    LET Of(c) == IF c = PyRaise THEN PyRaise ELSE PyBool(c = "lt")
    IN  Of(PyCmp(a, b))

\* a <= b, a >= b, a < b, a > b
PyLe(a, b) ==
    LET Of(c) == IF c = PyRaise THEN PyRaise ELSE PyBool(c \in {"lt", "eq"})
    IN  Of(PyCmp(a, b))

PyGe(a, b) ==
    LET Of(c) == IF c = PyRaise THEN PyRaise ELSE PyBool(c \in {"gt", "eq"})
    IN  Of(PyCmp(a, b))

PyLt(a, b) ==
    LET Of(c) == IF c = PyRaise THEN PyRaise ELSE PyBool(c = "lt")
    IN  Of(PyCmp(a, b))

PyGt(a, b) ==
    LET Of(c) == IF c = PyRaise THEN PyRaise ELSE PyBool(c = "gt")
    IN  Of(PyCmp(a, b))

\* a in c: an element of a list, a substring of a str, a key of a dict;
\* TypeError for any other container and for a non-str in a str.
PyIn(a, c) ==
    CASE c.t = "list" -> PyBool(\E i \in 1..Len(c.v) : PyEq(a, c.v[i]))
      [] c.t = "str" -> IF a.t = "str" THEN PyBool(SubStr(a.v, c.v)) ELSE PyRaise
      [] c.t = "dict" ->
            IF a.t \in {"list", "dict"} THEN PyRaise
            ELSE PyBool(a.t = "str" /\ a.v \in DOMAIN c.v)
      [] OTHER -> PyRaise

\* a in (c or [])
PyInOrEmpty(a, c) == IF Truthy(c) THEN PyIn(a, c) ELSE PyFalse

-----------------------------------------------------------------------------
(* The strings of the program text *)

s_eq == <<"e", "q">>
s_eqeq == <<"=", "=">>
s_neq == <<"n", "e", "q">>
s_bangeq == <<"!", "=">>
s_lte == <<"l", "t", "e">>
s_le == <<"l", "e">>
s_gte == <<"g", "t", "e">>
s_ge == <<"g", "e">>
s_lt == <<"l", "t">>
s_gt == <<"g", "t">>
s_in == <<"i", "n">>
s_not_in == <<"n", "o", "t", "_", "i", "n">>
s_contains == <<"c", "o", "n", "t", "a", "i", "n", "s">>
s_prohibits == <<"p", "r", "o", "h", "i", "b", "i", "t", "s">>
s_requires == <<"r", "e", "q", "u", "i", "r", "e", "s">>
s_expr == <<"e", "x", "p", "r">>
s_pct == <<"%">>
s_dollar_dot == <<"$", ".">>
s_subject == <<"s", "u", "b", "j", "e", "c", "t">>
s_investor == <<"i", "n", "v", "e", "s", "t", "o", "r">>
s_UNKNOWN == <<"U", "N", "K", "N", "O", "W", "N">>
s_HIGH == <<"H", "I", "G", "H">>
s_MEDIUM == <<"M", "E", "D", "I", "U", "M">>
s_LOW == <<"L", "O", "W">>
s_fee == <<"f", "e", "e">>
s_rate == <<"r", "a", "t", "e">>
s_report == <<"r", "e", "p", "o", "r", "t">>
s_deadline == <<"d", "e", "a", "d", "l", "i", "n", "e">>
s_sector == <<"s", "e", "c", "t", "o", "r">>
s_prohibit == <<"p", "r", "o", "h", "i", "b", "i", "t">>
s_allocation == <<"a", "l", "l", "o", "c", "a", "t", "i", "o", "n">>
s_ltv == <<"l", "t", "v">>
s_collateral == <<"c", "o", "l", "l", "a", "t", "e", "r", "a", "l">>
s_notice == <<"n", "o", "t", "i", "c", "e">>
s_notify == <<"n", "o", "t", "i", "f", "y">>
s_value == <<"v", "a", "l", "u", "e">>
s_fee_rate == <<"f", "e", "e", "_", "r", "a", "t", "e">>
s_report_delay_days ==
    <<"r", "e", "p", "o", "r", "t", "_", "d", "e", "l", "a", "y", "_", "d", "a", "y", "s">>
s_ltv_ratio == <<"l", "t", "v", "_", "r", "a", "t", "i", "o">>
s_notice_sent == <<"n", "o", "t", "i", "c", "e", "_", "s", "e", "n", "t">>
s_fee_post == <<"f", "e", "e", "_", "p", "o", "s", "t">>
s_report_delivered ==
    <<"r", "e", "p", "o", "r", "t", "_", "d", "e", "l", "i", "v", "e", "r", "e", "d">>
s_trade_allocated ==
    <<"t", "r", "a", "d", "e", "_", "a", "l", "l", "o", "c", "a", "t", "e", "d">>
s_sideletter_ingested ==
    <<"s", "i", "d", "e", "l", "e", "t", "t", "e", "r", "_", "i", "n", "g", "e", "s", "t", "e", "d">>
s_amendment_ingested ==
    <<"a", "m", "e", "n", "d", "m", "e", "n", "t", "_", "i", "n", "g", "e", "s", "t", "e", "d">>
s_data_event == <<"d", "a", "t", "a", "_", "e", "v", "e", "n", "t">>

-----------------------------------------------------------------------------
(* yaml.safe_dump and yaml.safe_load, as far as rule bundles use them.      *)
(* A scalar node is [k, style, text]; a sequence node is [k, items].  The   *)
(* dumper writes a str plain only where the loader's implicit resolver      *)
(* reads the plain text back as a str, and quotes it otherwise.             *)

AllDigits(s) == s # <<>> /\ \A i \in 1..Len(s) : s[i] \in Digits

Unsigned(s) == IF s # <<>> /\ s[1] \in {"-", "+"} THEN Tail(s) ELSE s

\* [-+]?(0|[1-9][0-9]*) and [-+]?0[0-7]+ : the resolver's int forms in decimal and octal
YamlIsInt(s) == AllDigits(Unsigned(s))

\* [-+]?[0-9]+\.[0-9]* and \.[0-9]+ : the resolver's float forms without exponent
YamlIsFloat(s) ==
    LET u == Unsigned(s)
        dots == {i \in 1..Len(u) : u[i] = "."}
    IN  \/ /\ Cardinality(dots) = 1
           /\ LET d == CHOOSE i \in dots : TRUE
              IN  /\ AllDigits(SubSeq(u, 1, d - 1))
                  /\ \A i \in (d + 1)..Len(u) : u[i] \in Digits
        \/ /\ Len(s) >= 2 /\ s[1] = "."
           /\ AllDigits(Tail(s))

\* [-+]?[1-9][0-9]*(:[0-5]?[0-9])+ : the resolver's base-60 int form
YamlIsSexagesimal(s) ==
    LET u == Unsigned(s)
        colons == {i \in 1..Len(u) : u[i] = ":"}
    IN  /\ colons # {}
        /\ \A i \in 1..Len(u) : u[i] \in Digits \cup {":"}
        /\ u[1] \in Digits \ {"0"}
        /\ \A c \in colons :
              LET nxt == IF \E j \in colons : j > c
                         THEN CHOOSE j \in colons : j > c /\ \A m \in colons : m > c => j <= m
                         ELSE Len(u) + 1
                  part == SubSeq(u, c + 1, nxt - 1)
              IN  /\ Len(part) \in {1, 2}
                  /\ Len(part) = 2 => part[1] \in {"0", "1", "2", "3", "4", "5"}

\* [0-9][0-9][0-9][0-9]-[0-9][0-9]?-[0-9][0-9]? : the resolver's date form
YamlIsDate(s) ==
    /\ Len(s) \in 8..10
    /\ AllDigits(SubSeq(s, 1, 4))
    /\ s[5] = "-"
    /\ \E d \in {7, 8} :
          /\ s[d] = "-"
          /\ AllDigits(SubSeq(s, 6, d - 1))
          /\ AllDigits(SubSeq(s, d + 1, Len(s)))
          /\ Len(s) - d \in {1, 2}

YamlNullTexts ==
    {<<>>, <<"~">>, <<"n", "u", "l", "l">>, <<"N", "u", "l", "l">>, <<"N", "U", "L", "L">>}

YamlTrueTexts ==
    {<<"y", "e", "s">>, <<"Y", "e", "s">>, <<"Y", "E", "S">>,
     <<"t", "r", "u", "e">>, <<"T", "r", "u", "e">>, <<"T", "R", "U", "E">>,
     <<"o", "n">>, <<"O", "n">>, <<"O", "N">>}

YamlFalseTexts ==
    {<<"n", "o">>, <<"N", "o">>, <<"N", "O">>,
     <<"f", "a", "l", "s", "e">>, <<"F", "a", "l", "s", "e">>, <<"F", "A", "L", "S", "E">>,
     <<"o", "f", "f">>, <<"O", "f", "f">>, <<"O", "F", "F">>}

\* The tag the implicit resolver gives a plain scalar.
YamlResolve(s) ==
    CASE s \in YamlNullTexts -> "null"
      [] s \in YamlTrueTexts \cup YamlFalseTexts -> "bool"
      [] YamlIsInt(s) \/ YamlIsSexagesimal(s) -> "int"
      [] YamlIsFloat(s) -> "float"
      [] YamlIsDate(s) -> "timestamp"
      [] s = <<"=">> -> "value"
      [] OTHER -> "str"

\* The emitter writes a scalar plain only if the text can stand unquoted in a
\* block: not empty, no space at either end, no leading indicator, no ": " and
\* no trailing ":".
YamlAllowPlain(s) ==
    /\ s # <<>>
    /\ s[1] # " " /\ s[Len(s)] # " "
    /\ s[1] \notin {"!", "%", "'", ",", "[", "]"}
    /\ ~(s[1] \in {"-", ":"} /\ (Len(s) = 1 \/ s[2] = " "))
    /\ \A i \in 1..Len(s) : s[i] = ":" => (i < Len(s) /\ s[i + 1] # " ")

RECURSIVE NatText(_)
NatText(n) ==
    IF n < 10 THEN <<Ascii[Ord("0") + n]>>
    ELSE NatText(n \div 10) \o <<Ascii[Ord("0") + (n % 10)]>>

RECURSIVE TrimZeros(_)
TrimZeros(s) ==
    IF s # <<>> /\ s[Len(s)] = "0" THEN TrimZeros(SubSeq(s, 1, Len(s) - 1)) ELSE s

\* The frac part of a number, as its Scale-many digits without trailing zeros.
FracText(f) ==
    LET Padded(digits) == TrimZeros([i \in 1..(6 - Len(digits)) |-> "0"] \o digits)
    IN  Padded(NatText(f))

\* repr of a number: "5" for an integral one, "0.0175" for a fractional one.
NumText(n) ==
    LET Text(mag, sign) ==
            IF mag % Scale = 0 THEN sign \o NatText(mag \div Scale)
            ELSE sign \o NatText(mag \div Scale) \o <<".">> \o FracText(mag % Scale)
    IN  IF n < 0 THEN Text(0 - n, <<"-">>) ELSE Text(n, <<>>)

YamlPlain(s) == [k |-> "scalar", style |-> "plain", text |-> s]
YamlQuoted(s) == [k |-> "scalar", style |-> "quoted", text |-> s]

\* A serializer that never quotes; C7 fails of it.
YamlDumpStr_Plain(s) == YamlPlain(s)

\* represent_str with the serializer's choice of style
YamlDumpStr(s) ==
    IF YamlResolve(s) = "str" /\ YamlAllowPlain(s) THEN YamlPlain(s) ELSE YamlQuoted(s)

YamlDumpScalar(x) ==
    CASE x.t = "null" -> YamlPlain(<<"n", "u", "l", "l">>)
      [] x.t = "bool" ->
            YamlPlain(IF x.v THEN <<"t", "r", "u", "e">> ELSE <<"f", "a", "l", "s", "e">>)
      [] x.t = "num" -> YamlPlain(NumText(x.v))
      [] OTHER -> YamlDumpStr(x.v)

\* safe_dump of a value: a scalar, or a list of scalars
YamlDump(x) ==
    LET Node(scalars) ==
            IF x.t = "list" THEN [k |-> "seq", items |-> scalars] ELSE scalars[1]
        Values(values) == Node([i \in 1..Len(values) |-> YamlDumpScalar(values[i])])
    IN  Values(IF x.t = "list" THEN x.v ELSE <<x>>)

RECURSIVE OctalVal(_)
OctalVal(s) ==
    IF s = <<>> THEN 0
    ELSE 8 * OctalVal(SubSeq(s, 1, Len(s) - 1)) + DigitVal(s[Len(s)])

RECURSIVE SexagesimalVal(_, _)
SexagesimalVal(s, acc) ==
    IF s = <<>> THEN acc
    ELSE LET colons == {i \in 1..Len(s) : s[i] = ":"}
             c == IF colons = {} THEN Len(s) + 1
                  ELSE CHOOSE i \in colons : \A j \in colons : i <= j
         IN  SexagesimalVal(SubSeq(s, c + 1, Len(s)), 60 * acc + DigitsVal(SubSeq(s, 1, c - 1)))

\* construct_yaml_int
YamlInt(s) ==
    LET Signed(mag) == Num((IF s[1] = "-" THEN 0 - mag ELSE mag) * Scale)
        Value(u) ==
            Signed(IF YamlIsSexagesimal(s) THEN SexagesimalVal(u, 0)
                   ELSE IF Len(u) > 1 /\ u[1] = "0" THEN OctalVal(Tail(u))
                   ELSE DigitsVal(u))
    IN  Value(Unsigned(s))

\* construct_object of a scalar node
YamlLoadScalar(n) ==
    LET Construct(tag) ==
            CASE tag = "null" -> Null
              [] tag = "bool" -> Bool(n.text \in YamlTrueTexts)
              [] tag = "int" -> YamlInt(n.text)
              [] tag = "float" -> ParseFloat(n.text)
              [] tag \in {"timestamp", "value"} -> [t |-> tag, v |-> n.text]
              [] OTHER -> Str(n.text)
    IN  IF n.style = "quoted" THEN Str(n.text) ELSE Construct(YamlResolve(n.text))

\* safe_load of a node
YamlLoad(n) ==
    LET Value(scalars) == IF n.k = "seq" THEN List(scalars) ELSE scalars[1]
        Nodes(nodes) == Value([i \in 1..Len(nodes) |-> YamlLoadScalar(nodes[i])])
    IN  Nodes(IF n.k = "seq" THEN n.items ELSE <<n>>)

-----------------------------------------------------------------------------
(* app/models.py: PolicyRule, and app/policy/store.py *)

\* The fields of a PolicyRule holding a dict (selector, check) or a model
\* (evidence).
RuleDicts == {"selector", "check", "evidence"}

\* yaml.safe_dump of r.model_dump(): every field of the rule as a YAML node
YamlDumpRule(r) ==
    [f \in DOMAIN r |->
        IF f \in RuleDicts THEN [g \in DOMAIN r[f] |-> YamlDump(r[f][g])]
        ELSE YamlDump(r[f])]

\* yaml.safe_load of one entry of "rules"
YamlLoadRule(n) ==
    [f \in DOMAIN n |->
        IF f \in RuleDicts THEN [g \in DOMAIN n[f] |-> YamlLoad(n[f][g])]
        ELSE YamlLoad(n[f])]

OptionalStr(x) == x.t \in {"null", "str"}

\* PolicyRule(**r): the field types pydantic validates
PolicyRuleValid(r) ==
    /\ r.id.t = "str"
    /\ r.on_events.t = "list"
    /\ \A i \in 1..Len(r.on_events.v) : r.on_events.v[i].t = "str"
    /\ r.severity.t = "str" /\ r.severity.v \in {s_HIGH, s_MEDIUM, s_LOW}
    /\ r.evidence.doc.t = "str"
    /\ r.evidence.page.t \in {"null", "num"}
    /\ \/ r.evidence.bbox.t = "null"
       \/ /\ r.evidence.bbox.t = "list"
          /\ \A i \in 1..Len(r.evidence.bbox.v) : r.evidence.bbox.v[i].t = "num"
    /\ OptionalStr(r.evidence.text_snippet)
    /\ OptionalStr(r.evidence.hash)
    /\ OptionalStr(r.comments)

\* load_rules(): [] when policy.yaml does not exist; data.get("rules", []) of
\* the loaded document otherwise (an empty file loads as {}); raises when an
\* entry is no PolicyRule.
load_rules(file) ==
    LET Rules(loaded) ==
            IF \A i \in 1..Len(loaded) : PolicyRuleValid(loaded[i])
            THEN [raised |-> FALSE, rules |-> loaded]
            ELSE [raised |-> TRUE, rules |-> <<>>]
    IN  IF ~file.exists THEN [raised |-> FALSE, rules |-> <<>>]
        ELSE Rules([i \in 1..Len(file.rules) |-> YamlLoadRule(file.rules[i])])

\* A match on the event type alone; C6 fails of it.
RuleMatches_AnySubject(r, event_type, subject) == PyIn(event_type, r.on_events) = PyTrue

\* event_type in r.on_events and r.selector.get("subject.eq") == subject
RuleMatches(r, event_type, subject) ==
    /\ PyIn(event_type, r.on_events) = PyTrue
    /\ PyEq(r.selector.subject_eq, subject)

\* get_rules_for(event_type, subject): the rules of the freshly loaded bundle
\* that match, in bundle order
get_rules_for(file, event_type, subject) ==
    LET Out(l) ==
            [raised |-> l.raised,
             rules |-> SelectSeq(l.rules, LAMBDA r : RuleMatches(r, event_type, subject))]
    IN  Out(load_rules(file))

SeqRange(q) == {q[i] : i \in 1..Len(q)}

\* build_index(rules): index[event_type][subject] = [rule, ...]
build_index(rules) ==
    LET evs == UNION {SeqRange(r.on_events.v) : r \in SeqRange(rules)}
    IN  [e \in evs |->
            LET on == SelectSeq(rules, LAMBDA r : e \in SeqRange(r.on_events.v))
            IN  [s \in {r.selector.subject_eq : r \in SeqRange(on)} |->
                    SelectSeq(on, LAMBDA r : r.selector.subject_eq = s)]]

\* The content write_policy_bundle gives policy.yaml.
BundleFile(rules) ==
    [exists |-> TRUE, rules |-> [i \in 1..Len(rules) |-> YamlDumpRule(rules[i])]]

-----------------------------------------------------------------------------
(* app/agents/validator.py *)

\* dict.get(key): None when the key is absent
DictGet(d, key) == IF key \in DOMAIN d THEN d[key] ELSE Null

\* A key that is absent read as 0; C30 fails of it.
_json_get_Default(payload, jsonpath) ==
    IF ~StartsWith(jsonpath, s_dollar_dot) THEN Null
    ELSE IF SubSeq(jsonpath, 3, Len(jsonpath)) \in DOMAIN payload
         THEN payload[SubSeq(jsonpath, 3, Len(jsonpath))]
         ELSE Num(0)

\* _json_get(payload, jsonpath): only "$.<key>"
_json_get(payload, jsonpath) ==
    IF ~StartsWith(jsonpath, s_dollar_dot) THEN Null
    ELSE DictGet(payload, SubSeq(jsonpath, 3, Len(jsonpath)))

\* A percentage taken without the division by 100; C5 fails of it.
PercentOf_Undivided(n) == n
\* float(s) / 100.0
PercentOf(n) == IF n.t = "null" THEN Null ELSE Num(n.v \div 100)

\* _as_number(v, unit): a float, or None
_as_number(v, unit) ==
    CASE IsNumeric(v) -> Num(NumVal(v))
      [] v.t = "str" ->
            LET s == Strip(v.v)
            IN  IF (unit.t = "str" /\ unit.v = s_pct) \/ EndsWith(s, s_pct)
                THEN PercentOf(ParseFloat(RemoveChar(s, "%")))
                ELSE ParseFloat(s)
      [] OTHER -> Null

\* A membership test that is not inverted; C31 fails of it.
Prohibits_AsIn(lhs, rhs) == PyInOrEmpty(lhs, rhs)

\* return not (lhs in (rhs or []))
Prohibits(lhs, rhs) == PyNot(PyInOrEmpty(lhs, rhs))

\* A test of the presence of lhs in place of its truth; C32 fails of it.
Requires_Present(lhs) == PyBool(lhs.t # "null")

\* return bool(lhs)
Requires(lhs) == PyBool(Truthy(lhs))

\* An unknown operator never satisfied; C33 fails of it.
CompareDefault_Never(lhs, rhs) == PyFalse

\* default to eq: return lhs == rhs
CompareDefault(lhs, rhs) == PyBool(PyEq(lhs, rhs))

\* The comparator table of _compare, for operands that are not None.
CompareTable(op, lhs, rhs) ==
    CASE op = s_eq -> PyBool(PyEq(lhs, rhs))
      [] op = s_neq -> PyBool(~PyEq(lhs, rhs))
      [] op \in {s_lte, s_le} -> PyLe(lhs, rhs)
      [] op \in {s_gte, s_ge} -> PyGe(lhs, rhs)
      [] op = s_lt -> PyLt(lhs, rhs)
      [] op = s_gt -> PyGt(lhs, rhs)
      [] op = s_in -> PyInOrEmpty(lhs, rhs)
      [] op = s_not_in -> PyNot(PyInOrEmpty(lhs, rhs))
      [] op = s_contains ->
            IF lhs.t = "list" THEN PyIn(rhs, lhs)
            ELSE IF lhs.t = "str" /\ rhs.t = "str"
                 THEN PyBool(SubStr(Lower(rhs.v), Lower(lhs.v)))
                 ELSE PyFalse
      [] op = s_prohibits -> Prohibits(lhs, rhs)
      [] op = s_requires -> Requires(lhs)
      [] OTHER -> CompareDefault(lhs, rhs)

\* A None branch that lets every other operator pass; C4 fails of it.
CompareNone_Passing(op, lhs, rhs) ==
    IF op \in {s_eq, s_eqeq} THEN PyBool(PyEq(lhs, rhs))
    ELSE IF op \in {s_neq, s_bangeq} THEN PyBool(~PyEq(lhs, rhs))
    ELSE PyTrue
\* The branch of _compare taken when lhs is None or rhs is None.
CompareNone(op, lhs, rhs) ==
    IF op \in {s_eq, s_eqeq} THEN PyBool(PyEq(lhs, rhs))
    ELSE IF op \in {s_neq, s_bangeq} THEN PyBool(~PyEq(lhs, rhs))
    ELSE PyFalse

\* _compare(op, lhs, rhs): "true", "false", or "raise" for an exception
_compare(op0, lhs, rhs) ==
    IF Truthy(op0) /\ op0.t # "str" THEN PyRaise
    ELSE LET op == Lower(IF Truthy(op0) THEN op0.v ELSE s_eq)
         IN  IF lhs.t = "null" \/ rhs.t = "null" THEN CompareNone(op, lhs, rhs)
             ELSE CompareTable(op, lhs, rhs)

\* FactEvent(**fact_event): type is a str and payload a dict
FactEventValid(ev) ==
    /\ "type" \in DOMAIN ev /\ "payload" \in DOMAIN ev
    /\ ev.type.t = "str"
    /\ ev.payload.t = "dict"

\* ev.payload.get("subject") or ev.payload.get("investor") or "UNKNOWN"
SubjectOf(payload) ==
    IF Truthy(DictGet(payload, s_subject)) THEN DictGet(payload, s_subject)
    ELSE IF Truthy(DictGet(payload, s_investor)) THEN DictGet(payload, s_investor)
    ELSE Str(s_UNKNOWN)

\* One turn of the loop of RuleValidator.run: the operands read, their
\* numeric normalization, the operands handed to _compare, and its outcome.
RuleEval(r, payload) ==
    LET Compared(lhs_val, rhs_val, unit, lnum, rnum, l, rr) ==
            [rule |-> r, lhs_val |-> lhs_val, rhs_val |-> rhs_val, unit |-> unit,
             lnum |-> lnum, rnum |-> rnum, l |-> l, r |-> rr,
             ok |-> _compare(r.check.op, l, rr)]
        Numbered(lhs_val, rhs_val, unit, lnum, rnum) ==
            IF lnum.t # "null" /\ rnum.t # "null"
            THEN Compared(lhs_val, rhs_val, unit, lnum, rnum, lnum, rnum)
            ELSE Compared(lhs_val, rhs_val, unit, lnum, rnum, lhs_val, rhs_val)
        Read(lhs_val, rhs_val, unit) ==
            Numbered(lhs_val, rhs_val, unit,
                       _as_number(lhs_val, unit), _as_number(rhs_val, unit))
    IN  Read(_json_get(payload, r.check.lhs.v), r.check.rhs, r.check.unit)

\* Violation(...).model_dump() for a rule that is not satisfied
ViolationOf(r, ev, subject, vid) ==
    [id |-> vid,
     rule_id |-> r.id,
     event_type |-> ev.type,
     subject |-> subject,
     expected |-> [op |-> r.check.op, lhs |-> r.check.lhs,
                   rhs |-> r.check.rhs, unit |-> r.check.unit],
     actual |-> ev.payload,
     severity |-> r.severity,
     evidence |-> r.evidence]

\* RuleValidator.run(None, fact_event), the uuid drawn for the i-th candidate
\* rule being ids[i]: the violations returned, or raised when FactEvent, the
\* load of the bundle or a comparison raises.  evals records each turn of the
\* loop.
RuleValidator_run(file, fact_event, ids) ==
    LET Returned(found, subject, evals) ==
            LET RECURSIVE Collect(_)
                Collect(i) ==
                    IF i > Len(evals) THEN <<>>
                    ELSE (IF evals[i].ok = PyFalse
                          THEN <<ViolationOf(found.rules[i], fact_event, subject, ids[i])>>
                          ELSE <<>>) \o Collect(i + 1)
            IN  IF found.raised \/ \E i \in 1..Len(evals) : evals[i].ok = PyRaise
                THEN [raised |-> TRUE, violations |-> <<>>, evals |-> evals]
                ELSE [raised |-> FALSE, violations |-> Collect(1), evals |-> evals]
        Looped(found, subject) ==
            Returned(found, subject,
                     [i \in 1..Len(found.rules) |->
                         RuleEval(found.rules[i], fact_event.payload.v)])
        Found(subject) == Looped(get_rules_for(file, fact_event.type, subject), subject)
    IN  IF ~FactEventValid(fact_event)
        THEN [raised |-> TRUE, violations |-> <<>>, evals |-> <<>>]
        ELSE Found(SubjectOf(fact_event.payload.v))

-----------------------------------------------------------------------------
(* app/policy/dsl.py *)

_PRIO_ATTRS ==
    <<s_fee, s_rate, s_report, s_deadline, s_sector, s_prohibit, s_ltv, s_collateral,
      s_notice>>

\* x or "": the text of an optional str
OrEmpty(x) == IF Truthy(x) /\ x.t = "str" THEN x.v ELSE <<>>

\* _guess_event(cf)
_guess_event(cf) ==
    LET ob == Lower(OrEmpty(cf.obligation))
        attr == Lower(OrEmpty(cf.attribute))
    IN  CASE SubStr(s_fee, attr) \/ SubStr(s_fee, ob) -> <<Str(s_fee_post)>>
          [] SubStr(s_report, ob) \/ SubStr(s_deadline, attr) -> <<Str(s_report_delivered)>>
          [] SubStr(s_prohibit, ob) \/ SubStr(s_sector, attr) \/ SubStr(s_allocation, attr) ->
                <<Str(s_trade_allocated)>>
          [] SubStr(s_notify, ob) \/ SubStr(s_notice, attr) ->
                <<Str(s_sideletter_ingested), Str(s_amendment_ingested)>>
          [] OTHER -> <<Str(s_data_event)>>

RECURSIVE JoinRepr(_)

\* repr(x) of a scalar, and str(x) of a value as an f-string formats it
PyRepr(x) ==
    CASE x.t = "null" -> <<"N", "o", "n", "e">>
      [] x.t = "bool" -> IF x.v THEN <<"T", "r", "u", "e">> ELSE <<"F", "a", "l", "s", "e">>
      [] x.t = "num" -> NumText(x.v)
      [] x.t = "str" -> <<"'">> \o x.v \o <<"'">>
      [] OTHER -> <<>>

JoinRepr(l) ==
    IF l = <<>> THEN <<>>
    ELSE IF Len(l) = 1 THEN PyRepr(l[1])
    ELSE PyRepr(l[1]) \o <<",", " ">> \o JoinRepr(Tail(l))

PyStr(x) ==
    CASE x.t = "str" -> x.v
      [] x.t = "list" -> <<"[">> \o JoinRepr(x.v) \o <<"]">>
      [] OTHER -> PyRepr(x)

s_derived ==
    <<"D", "e", "r", "i", "v", "e", "d", " ", "f", "r", "o", "m", " ",
      "c", "l", "a", "u", "s", "e", ":", " ">>

\* An operator without the default; C35 fails of it.
OpOf_Bare(comparator) == Lower(OrEmpty(comparator))

\* (cf.comparator or "expr").lower()
OpOf(comparator) == Lower(IF Truthy(comparator) THEN comparator.v ELSE s_expr)

\* rule_from_clause(cf)
rule_from_clause(cf) ==
    LET attr == Lower(IF Truthy(cf.attribute) THEN cf.attribute.v
                      ELSE IF Truthy(cf.obligation) THEN cf.obligation.v
                      ELSE s_value)
        lhs == CASE SubStr(s_fee, attr) -> s_dollar_dot \o s_fee_rate
                 [] SubStr(s_report, attr) \/ SubStr(s_deadline, attr) ->
                       s_dollar_dot \o s_report_delay_days
                 [] SubStr(s_sector, attr) \/ SubStr(s_allocation, attr) ->
                       s_dollar_dot \o s_sector
                 [] SubStr(s_ltv, attr) -> s_dollar_dot \o s_ltv_ratio
                 [] SubStr(s_notice, attr) -> s_dollar_dot \o s_notice_sent
                 [] OTHER -> s_dollar_dot \o ReplaceChar(attr, " ", "_")
        op == OpOf(cf.comparator)
        prio == \E i \in 1..Len(_PRIO_ATTRS) :
                    SubStr(_PRIO_ATTRS[i], Lower(OrEmpty(cf.attribute)))
    IN  [id |-> Str(<<"R", "-">> \o cf.id.v),
         selector |-> [subject_eq |-> cf.subject],
         check |-> [op |-> Str(op), lhs |-> Str(lhs), rhs |-> cf.value, unit |-> cf.unit],
         on_events |-> List(_guess_event(cf)),
         severity |-> Str(IF prio THEN s_HIGH ELSE s_MEDIUM),
         evidence |-> cf.evidence,
         comments |-> Str(Strip(s_derived \o cf.obligation.v \o <<" ">>
                                \o OrEmpty(cf.attribute) \o <<" ">>
                                \o OrEmpty(cf.comparator) \o <<" ">>
                                \o PyStr(cf.value) \o <<" ">>
                                \o OrEmpty(cf.unit)))]

-----------------------------------------------------------------------------
(* The inputs the specifications draw from *)

s_inst_a == <<"I", "n", "s", "t", " ", "A">>
s_fund_b == <<"F", "u", "n", "d", " ", "B">>
s_management_fee == <<"m", "a", "n", "a", "g", "e", "m", "e", "n", "t", "_", "f", "e", "e">>
s_pay == <<"p", "a", "y">>
s_limit == <<"l", "i", "m", "i", "t">>
s_days == <<"d", "a", "y", "s">>
s_between == <<"b", "e", "t", "w", "e", "e", "n">>
s_absent == <<"a", "b", "s", "e", "n", "t">>
s_LTE == <<"L", "T", "E">>
s_sic7372 == <<"S", "I", "C", ":", "7", "3", "7", "2">>
s_sic7371 == <<"S", "I", "C", ":", "7", "3", "7", "1">>
s_200pct == <<"2", ".", "0", "0", "%">>
s_175pct == <<"1", ".", "7", "5", "%">>
s_15pct_spaced == <<" ", "1", ".", "5", "%", " ">>
s_175 == <<"1", ".", "7", "5">>
s_0015 == <<"0", ".", "0", "1", "5">>
s_abc == <<"a", "b", "c">>
s_doc == <<"A", ".", "p", "d", "f">>
s_c1 == <<"c", "1">>
s_c2 == <<"c", "2">>
s_c3 == <<"c", "3">>
s_null == <<"n", "u", "l", "l">>
s_yes == <<"y", "e", "s">>
s_130 == <<"1", ":", "3", "0">>
s_a_colon_b == <<"a", ":", " ", "b">>
s_space_a == <<" ", "a">>
s_1311 == <<"1", "3", "1", "1">>
s_date == <<"2", "0", "2", "4", "-", "0", "1", "-", "0", "2">>
s_123 == <<"1", "2", "3">>
s_nothing == <<"n", "o", "t", "h", "i", "n", "g">>

Subject1 == Str(s_inst_a)
Subject2 == Str(s_fund_b)

Evidence1 ==
    [doc |-> Str(s_doc), page |-> Num(2 * Scale), bbox |-> Null,
     text_snippet |-> Null, hash |-> Null]

\* A ClauseFrame, with the fields rule_from_clause reads.
Frame(id, subject, obligation, attribute, comparator, value, unit) ==
    [id |-> Str(id), subject |-> subject, obligation |-> Str(obligation),
     attribute |-> attribute, comparator |-> comparator, value |-> value,
     unit |-> unit, evidence |-> Evidence1]

\* ClauseFrame(**f): id, subject and obligation are required strings (a key
\* that is missing is read as None here, and None is no string either).
ClauseFrameValid(f) == f.id.t = "str" /\ f.subject.t = "str" /\ f.obligation.t = "str"

\* 0.0175, 0.02, 0.015 and 0.018 as numbers
N0175 == Num(17500)
N02 == Num(20000)
N015 == Num(15000)
N018 == Num(18000)

\* A fact event as the caller's dict: the keys given are the keys present.
Event(type, payload) == [type |-> type, payload |-> Dict(payload)]

\* A payload: the subject under "subject" or "investor" (or under neither),
\* and one measured field (or none).
Payload(skey, subject, key, value) ==
    LET kv == (IF subject.t = "null" THEN {} ELSE {<<skey, subject>>})
              \cup (IF value.t = "absent" THEN {} ELSE {<<key, value>>})
    IN  [k \in {p[1] : p \in kv} |-> (CHOOSE p \in kv : p[1] = k)[2]]

Absent == [t |-> "absent", v |-> 0]

-----------------------------------------------------------------------------
(* State shared by the specifications *)

NoFile == [exists |-> FALSE, rules |-> <<>>]
NoIndex == [exists |-> FALSE, index |-> <<>>]
NoLedger == [exists |-> FALSE, lines |-> <<>>]
NoState == [exists |-> FALSE, map |-> <<>>]
NoResp == [op |-> "none"]

\* Nothing written, appended or set yet.  rewritten tells that a bundle has
\* been dumped over a bundle of other rules, and completed holds the rules of
\* the last write_policy_bundle that returned; frames holds the frames that
\* PolicyCompiler.run was last given.  appended holds the violations in
\* the order of their f.write, and set the status each finished status change
\* gave its violation id.
NoHist ==
    [written |-> <<>>, everWritten |-> FALSE, rewritten |-> FALSE, completed |-> <<>>,
     frames |-> <<>>, appended |-> <<>>, set |-> <<>>]

\* The requests of the thread pool that are followed step by step.
Callers == {"c1", "c2"}

\* A thread with no request.  todo: the violations node_explain_emit has not
\* written yet; buf: the lines written to the file object and not flushed;
\* vid, status, state: the locals of set_violation_status.
CallOff ==
    [pc |-> "off", todo |-> <<>>, buf |-> <<>>, vid |-> <<>>, status |-> "OPEN",
     state |-> <<>>]

NoCalls == [c \in Callers |-> CallOff]

\* The ledger is followed up to this many lines.
MaxLedger == 2

\* The connections to /violations/stream that are followed: one where one
\* connection is looked at, and two where connections are set side by side.
Subscribers == {"s1"}
Connections == {"s1", "s2"}

\* A connection not made yet.  Positions are counted in ledger lines: every
\* append is of whole lines.  out is what has been yielded, and seen the
\* positions in the ledger of the lines yielded, in the order of the yields;
\* started tells that a turn of the loop has found the ledger and has been
\* through `if last_pos == 0`.
SubOff ==
    [pc |-> "off", tail |-> FALSE, last_pos |-> 0, size |-> 0, out |-> <<>>, at |-> 0,
     seen |-> <<>>, started |-> FALSE]

NoSubs == [s \in Connections |-> SubOff]

\* The violation ids uuid4().hex[:8] is drawn from.
VioIds == {<<"V", "-", "0", "a">>, <<"V", "-", "0", "b">>}

-----------------------------------------------------------------------------
(* SpecValidate: RuleValidator.run on one fact event, against a bundle that *)
(* PolicyCompiler.run compiled from one or two clause frames and wrote.     *)

ValidateComparators ==
    {Str(s_eq), Str(s_neq), Str(s_lte), Str(s_le), Str(s_gte), Str(s_ge), Str(s_lt),
     Str(s_gt), Str(s_in), Str(s_not_in), Str(s_contains), Str(s_prohibits),
     Str(s_requires), Str(s_expr), Str(s_between), Str(s_absent), Str(s_eqeq),
     Str(s_bangeq), Str(s_LTE), Null}

ValidateValues ==
    {Null, N0175, Str(s_175pct), Str(s_175), Str(s_abc), Str(s_sic7372),
     List(<<Str(s_sic7372), Str(s_abc)>>), List(<<>>)}

ValidateUnits == {Null, Str(s_pct)}

\* The measured attribute of the frame under test, with its obligation.
ValidateAttributes ==
    {<<s_pay, Str(s_management_fee)>>, <<s_prohibit, Str(s_sector)>>, <<s_limit, Null>>}

ValidateFrames ==
    {Frame(s_c1, Subject1, a[1], a[2], c, v, u) :
        a \in ValidateAttributes, c \in ValidateComparators,
        v \in ValidateValues, u \in ValidateUnits}

\* A second clause of the same subject: the fee is at most 0.018.
CompanionFrame == Frame(s_c2, Subject1, s_pay, Str(s_management_fee), Str(s_lte), N018, Null)

\* A clause on fees that measures another field: its rule reads $.limit on
\* fee_post events.
LimitFrame ==
    Frame(s_c1, Subject1, s_management_fee, Str(s_limit), Str(s_lte), N0175, Null)

\* Every frame alone, some of them together with the second clause, and the
\* clause on another field together with the second clause.
ValidateBatches ==
    {<<f>> : f \in ValidateFrames}
    \cup {<<f, CompanionFrame>> :
            f \in {g \in ValidateFrames :
                      g.comparator \in {Str(s_lte), Str(s_lt), Str(s_requires)}}}
    \cup {<<LimitFrame, CompanionFrame>>}

ValidateFieldValues ==
    {Absent, Null, N02, N015, N0175, Str(s_200pct), Str(s_15pct_spaced), Str(s_175),
     Str(<<"0">>), Str(s_sic7372), Str(s_sic7371), Str(s_abc), List(<<Str(s_abc)>>), Bool(TRUE)}

\* The event type of a fact, with the payload key of its measured field.
ValidateTypes ==
    {<<s_fee_post, s_fee_rate>>, <<s_trade_allocated, s_sector>>, <<s_data_event, s_limit>>}

\* Facts of the first subject with every field value; facts that name the
\* subject under "investor", name another subject or name none; and dicts
\* that are no FactEvent.
ValidateEvents ==
    {Event(Str(tk[1]), Payload(s_subject, Subject1, tk[2], v)) :
        tk \in ValidateTypes, v \in ValidateFieldValues}
    \cup {Event(Str(tk[1]), Payload(sj[1], sj[2], tk[2], v)) :
            tk \in ValidateTypes,
            sj \in {<<s_investor, Subject1>>, <<s_subject, Subject2>>, <<s_subject, Null>>},
            v \in {N02, Str(s_sic7372)}}
    \cup {[type |-> Str(s_fee_post)],
          [payload |-> Dict(Payload(s_subject, Subject1, s_fee_rate, N02))],
          [type |-> Str(s_fee_post), payload |-> Str(s_abc)]}

CompileAll(frames) == [i \in 1..Len(frames) |-> rule_from_clause(frames[i])]

InitValidate ==
    /\ \E frames \in ValidateBatches : \E rules \in {CompileAll(frames)} :
          /\ policy_yaml = BundleFile(rules)
          /\ rules_index = [exists |-> TRUE, index |-> build_index(rules)]
          /\ hist = [NoHist EXCEPT !.written = rules, !.everWritten = TRUE]
    /\ vios = NoLedger
    /\ state_json = NoState
    /\ wpc = "idle"
    /\ wrules = <<>>
    /\ subs = NoSubs
    /\ resp = NoResp
    /\ calls = NoCalls

\* node_validate: validator.run(None, state["data_event"])
ValidateFact(ev, ids) ==
    /\ resp = NoResp
    /\ resp' = [op |-> "run", event |-> ev, out |-> RuleValidator_run(policy_yaml, ev, ids)]
    /\ UNCHANGED <<policy_yaml, rules_index, vios, state_json, wpc, wrules, subs, hist, calls>>

NextValidate ==
    \E ev \in ValidateEvents : \E ids \in VioIds \X VioIds : ValidateFact(ev, ids)

SpecValidate == InitValidate /\ [][NextValidate]_vars

-----------------------------------------------------------------------------
(* Claims about the validation of one fact (SpecValidate) *)

\* The rules PolicyCompiler.run handed to write_policy_bundle.
Written == hist.written

\* The positions of the violations returned that name rule r.
ViolationsOf(r) ==
    {j \in 1..Len(resp.out.violations) : resp.out.violations[j].rule_id = r.id}

\* The event validated is a FactEvent of type ty whose payload names subject
\* sj under "subject".
ValidatedFact(ty, sj) ==
    /\ resp.op = "run"
    /\ FactEventValid(resp.event)
    /\ resp.event.type = Str(ty)
    /\ DictGet(resp.event.payload.v, s_subject) = sj

\* Rule r is the written rule {op, lhs: $.<key>, rhs of type ty} on event ev.
IsRule(r, op, key, ty, ev) ==
    /\ r.check.op = Str(op)
    /\ r.check.lhs = Str(s_dollar_dot \o key)
    /\ r.check.rhs.t = ty
    /\ Str(ev) \in SeqRange(r.on_events.v)

\* The turns of the validation loop that evaluated rule r, and the others.
TurnsOf(r) == {j \in 1..Len(resp.out.evals) : resp.out.evals[j].rule.id = r.id}
OtherTurns(r) == (1..Len(resp.out.evals)) \ TurnsOf(r)

\* Rule r was evaluated once with outcome ok; unless the comparison of another
\* candidate rule raised, the call returned and holds one violation of r when
\* ok is "false" and none when it is "true"; with r the only candidate, that
\* is all the call returned.
Yields(r, ok) ==
    /\ Cardinality(TurnsOf(r)) = 1
    /\ \A j \in TurnsOf(r) : resp.out.evals[j].ok = ok
    /\ (\A j \in OtherTurns(r) : resp.out.evals[j].ok # PyRaise) =>
          /\ ~resp.out.raised
          /\ Cardinality(ViolationsOf(r)) = (IF ok = PyFalse THEN 1 ELSE 0)
    /\ OtherTurns(r) = {} => Len(resp.out.violations) = Cardinality(ViolationsOf(r))

\* C1: with a persisted rule {op: lte, lhs: $.fee_rate, rhs: r} for subject S
\* on fee_post, validating a fee_post event of subject S with a numeric
\* fee_rate returns exactly one violation when fee_rate > r, with
\* expected.rhs = r and actual the event's payload, and none when fee_rate <= r.
C1_FeeRateLte ==
    \A i \in 1..Len(Written) :
        LET r == Written[i]
        IN  (/\ IsRule(r, s_lte, s_fee_rate, "num", s_fee_post)
             /\ ValidatedFact(s_fee_post, r.selector.subject_eq)
             /\ DictGet(resp.event.payload.v, s_fee_rate).t = "num")
            => /\ Yields(r, PyBool(DictGet(resp.event.payload.v, s_fee_rate).v <= r.check.rhs.v))
               /\ \A j \in ViolationsOf(r) :
                     /\ resp.out.violations[j].expected.rhs = r.check.rhs
                     /\ resp.out.violations[j].actual = resp.event.payload

\* A fee of 0.02 against the only rule, fee_rate <= 0.0175, has given one
\* violation.
C1_Witness ==
    /\ ValidatedFact(s_fee_post, Subject1)
    /\ DictGet(resp.event.payload.v, s_fee_rate) = N02
    /\ Len(Written) = 1
    /\ IsRule(Written[1], s_lte, s_fee_rate, "num", s_fee_post)
    /\ Written[1].check.rhs = N0175
    /\ Len(resp.out.violations) = 1
    /\ resp.out.violations[1].expected.rhs = N0175

\* C2: with a persisted rule {op: not_in, lhs: $.sector, rhs: L} on
\* trade_allocated, validating a trade_allocated event of the rule's subject
\* returns exactly one violation when the payload's sector is an element of L,
\* and none when sector is present (not None) and no element of L.
C2_SectorNotIn ==
    \A i \in 1..Len(Written) :
        LET r == Written[i]
        IN  (/\ IsRule(r, s_not_in, s_sector, "list", s_trade_allocated)
             /\ ValidatedFact(s_trade_allocated, r.selector.subject_eq)
             /\ DictGet(resp.event.payload.v, s_sector).t # "null")
            => Yields(r, PyBool(DictGet(resp.event.payload.v, s_sector)
                                    \notin SeqRange(r.check.rhs.v)))

\* Sector SIC:7372 against the only rule, which forbids it, has given one
\* violation.
C2_Witness ==
    /\ ValidatedFact(s_trade_allocated, Subject1)
    /\ DictGet(resp.event.payload.v, s_sector) = Str(s_sic7372)
    /\ Len(Written) = 1
    /\ IsRule(Written[1], s_not_in, s_sector, "list", s_trade_allocated)
    /\ Str(s_sic7372) \in SeqRange(Written[1].check.rhs.v)
    /\ Len(resp.out.violations) = 1

\* The turns of the validation loop in which an operand handed to _compare
\* was None and the rule's operator, lower-cased, is none of ops.
NoneTurns(ops) ==
    IF resp.op # "run" THEN {}
    ELSE {i \in 1..Len(resp.out.evals) :
            LET e == resp.out.evals[i]
            IN  /\ e.l.t = "null" \/ e.r.t = "null"
                /\ Lower(e.rule.check.op.v) \notin ops}

\* In every such turn the comparison is not satisfied, it does not raise, and
\* (unless another rule's comparison raised) the rule has its violation.
NotSatisfied(turns) ==
    \A i \in turns :
        /\ resp.out.evals[i].ok = PyFalse
        /\ ~resp.out.raised => ViolationsOf(resp.out.evals[i].rule) # {}

\* C4 as stated: for every comparator other than eq/neq, unknown operators
\* included, a None operand makes the comparison not satisfied.
C4_AsStated == NotSatisfied(NoneTurns({s_eq, s_neq}))

\* C4: for every comparator other than eq, neq and their spellings == and !=,
\* unknown operators included, a None operand on either side makes the
\* comparison not satisfied, so that the rule has a violation; it never raises.
C4_NoneNotSatisfied == NotSatisfied(NoneTurns({s_eq, s_neq, s_eqeq, s_bangeq}))

\* A rule with operator lte and a payload without the field has a violation.
C4_Witness ==
    /\ resp.op = "run"
    /\ \E i \in NoneTurns({s_eq, s_neq, s_eqeq, s_bangeq}) :
          /\ Lower(resp.out.evals[i].rule.check.op.v) = s_lte
          /\ resp.out.evals[i].lhs_val = Null
          /\ resp.out.evals[i].rhs_val = N0175
          /\ ViolationsOf(resp.out.evals[i].rule) # {}

\* The decimal numbers the model's numeric strings spell, and whether the
\* string (its white space aside) ends in "%".
Spelled ==
    {[text |-> s_200pct, number |-> 2 * Scale, pct |-> TRUE],
     [text |-> s_175pct, number |-> (175 * Scale) \div 100, pct |-> TRUE],
     [text |-> s_15pct_spaced, number |-> (15 * Scale) \div 10, pct |-> TRUE],
     [text |-> s_175, number |-> (175 * Scale) \div 100, pct |-> FALSE]}

Normalizable(x) == x.t = "num" \/ (x.t = "str" /\ \E row \in Spelled : row.text = x.v)

\* The number an operand is to stand for under the rule's unit.
Normalized(x, unit) ==
    IF x.t = "num" THEN x.v
    ELSE LET row == CHOOSE row \in Spelled : row.text = x.v
         IN  IF row.pct \/ unit = Str(s_pct) THEN row.number \div 100 ELSE row.number

\* C5: before an lte/gte comparison a string operand ending in "%", or any
\* numeric string operand when the rule's unit is "%", stands for its number
\* divided by 100 and a native number for itself: "2.00%" against 0.0175
\* compares 0.02 with 0.0175.
C5_PercentNormalization ==
    resp.op = "run" =>
        \A i \in 1..Len(resp.out.evals) :
            LET e == resp.out.evals[i]
                op == Lower(e.rule.check.op.v)
                l == Normalized(e.lhs_val, e.unit)
                r == Normalized(e.rhs_val, e.unit)
            IN  (/\ op \in {s_lte, s_le, s_gte, s_ge}
                 /\ Normalizable(e.lhs_val) /\ Normalizable(e.rhs_val))
                => /\ e.l = Num(l) /\ e.r = Num(r)
                   /\ op \in {s_lte, s_le} => e.ok = PyBool(l <= r)
                   /\ op \in {s_gte, s_ge} => e.ok = PyBool(l >= r)

\* "2.00%" has been compared with 0.0175 under lte, as 0.02 with 0.0175.
C5_Witness ==
    /\ resp.op = "run"
    /\ \E i \in 1..Len(resp.out.evals) :
          LET e == resp.out.evals[i]
          IN  /\ e.rule.check.op = Str(s_lte)
              /\ e.lhs_val = Str(s_200pct) /\ e.rhs_val = N0175
              /\ e.l = N02 /\ e.r = N0175
              /\ e.ok = PyFalse

\* The turns of the run whose rule has operator op (lower-cased, as _compare
\* reads it).
TurnsWithOp(op) ==
    {i \in 1..Len(resp.out.evals) : Lower(resp.out.evals[i].rule.check.op.v) = op}

\* x is an element of the list c.
ElementOf(x, c) == \E k \in 1..Len(c.v) : PyEq(x, c.v[k])

\* C31: a rule with operator prohibits, a left value that is there and a
\* list on the right is not satisfied, and has a violation, exactly when the
\* left value is an element of the list; it is satisfied, and has none, when
\* the left value is no element of it.
C31_ProhibitsMembership ==
    resp.op = "run"
    => \A i \in TurnsWithOp(s_prohibits) :
          (resp.out.evals[i].l.t # "null" /\ resp.out.evals[i].r.t = "list")
          => /\ resp.out.evals[i].ok =
                   (IF ElementOf(resp.out.evals[i].l, resp.out.evals[i].r)
                    THEN PyFalse ELSE PyTrue)
             /\ ~resp.out.raised
                => (ViolationsOf(resp.out.evals[i].rule) # {}
                    <=> ElementOf(resp.out.evals[i].l, resp.out.evals[i].r))

\* A prohibits rule on the list [SIC:7372, abc] has a violation for the sector
\* SIC:7372.
C31_Witness ==
    /\ resp.op = "run" /\ ~resp.out.raised
    /\ \E i \in TurnsWithOp(s_prohibits) :
          /\ resp.out.evals[i].l = Str(s_sic7372)
          /\ resp.out.evals[i].r = List(<<Str(s_sic7372), Str(s_abc)>>)
          /\ resp.out.evals[i].ok = PyFalse
          /\ ViolationsOf(resp.out.evals[i].rule) # {}

TableOps ==
    {s_eq, s_neq, s_lte, s_le, s_gte, s_ge, s_lt, s_gt, s_in, s_not_in, s_contains,
     s_prohibits, s_requires}

\* The turns of the run whose operator the table of _compare does not name.
DefaultTurns ==
    {i \in 1..Len(resp.out.evals) :
        Lower(resp.out.evals[i].rule.check.op.v) \notin TableOps}

\* C33 as stated: a rule with the operator expr, or any operator that the
\* table does not name, comes to what eq comes to on the same operands, for
\* every pair of operands.
C33_AsStated ==
    resp.op = "run"
    => \A i \in DefaultTurns :
          resp.out.evals[i].ok =
             _compare(Str(s_eq), resp.out.evals[i].l, resp.out.evals[i].r)

\* C33: a rule with the operator expr, or any operator that the table does
\* not name, comes to what eq comes to on the same operands when neither
\* operand is None; when an operand is None the handling of None comes first,
\* and expr, between and absent are then not satisfied, also where eq is
\* (None against None).
C33_DefaultIsEq ==
    resp.op = "run"
    => \A i \in DefaultTurns :
          /\ (resp.out.evals[i].l.t # "null" /\ resp.out.evals[i].r.t # "null")
             => resp.out.evals[i].ok =
                   PyBool(PyEq(resp.out.evals[i].l, resp.out.evals[i].r))
          /\ (/\ resp.out.evals[i].l.t = "null" \/ resp.out.evals[i].r.t = "null"
              /\ Lower(resp.out.evals[i].rule.check.op.v) \in {s_expr, s_between, s_absent})
             => resp.out.evals[i].ok = PyFalse

\* A rule with operator between on 0.0175 is satisfied by the fee 0.0175.
C33_Witness ==
    /\ resp.op = "run" /\ ~resp.out.raised
    /\ \E i \in DefaultTurns :
          /\ Lower(resp.out.evals[i].rule.check.op.v) = s_between
          /\ resp.out.evals[i].l = N0175 /\ resp.out.evals[i].r = N0175
          /\ resp.out.evals[i].ok = PyTrue
          /\ ViolationsOf(resp.out.evals[i].rule) = {}

\* The ids of the candidate rules whose turn ended with a comparison that is
\* not satisfied, in the order of the turns (the order of the bundle).
RECURSIVE FailedFrom(_)
FailedFrom(i) ==
    IF i > Len(resp.out.evals) THEN <<>>
    ELSE (IF resp.out.evals[i].ok = PyFalse THEN <<resp.out.evals[i].rule.id>> ELSE <<>>)
         \o FailedFrom(i + 1)

\* C29: the candidate rules of a fact are evaluated each on its own: the
\* violations of the run are one for every candidate whose comparison is not
\* satisfied, in the order of the bundle, whatever the turn of another
\* candidate comes to.
C29_OnePerFailedCandidate ==
    (resp.op = "run" /\ FactEventValid(resp.event))
    => [j \in 1..Len(resp.out.violations) |-> resp.out.violations[j].rule_id]
          = FailedFrom(1)

\* The turn i of the run read a path that the payload does not hold, or one
\* that does not start with "$.".
PathAbsent(i) ==
    \/ ~StartsWith(resp.out.evals[i].rule.check.lhs.v, s_dollar_dot)
    \/ SubSeq(resp.out.evals[i].rule.check.lhs.v, 3,
              Len(resp.out.evals[i].rule.check.lhs.v)) \notin DOMAIN resp.event.payload.v

\* What the handling of None makes of operator op with a left operand None.
NoneOutcome(op, rhs) ==
    IF op \in {s_eq, s_eqeq} THEN PyBool(rhs.t = "null")
    ELSE IF op \in {s_neq, s_bangeq} THEN PyBool(rhs.t # "null")
    ELSE PyFalse

\* C30: a candidate rule whose left-hand path the payload does not hold has
\* None for its left operand, its comparison does not raise and comes to what
\* the handling of None gives its operator; and unless the comparison of a
\* candidate whose path the payload holds raises, the run returns, with a
\* violation for every candidate that is not satisfied, those after the
\* absent path too.
C30_AbsentPathIsNull ==
    (resp.op = "run" /\ FactEventValid(resp.event))
    => /\ \A i \in 1..Len(resp.out.evals) :
             PathAbsent(i)
             => /\ resp.out.evals[i].lhs_val = Null
                /\ resp.out.evals[i].ok =
                      NoneOutcome(Lower(resp.out.evals[i].rule.check.op.v),
                                  resp.out.evals[i].rhs_val)
       /\ (\A i \in 1..Len(resp.out.evals) :
              resp.out.evals[i].ok = PyRaise => PathAbsent(i))
          => /\ ~resp.out.raised
             /\ \A i \in 1..Len(resp.out.evals) :
                   resp.out.evals[i].ok = PyFalse
                   <=> ViolationsOf(resp.out.evals[i].rule) # {}

\* The first candidate read $.limit, which the payload does not hold, and is
\* violated; the second candidate was evaluated on the fee_rate of the
\* payload and is violated too.
C30_Witness ==
    /\ resp.op = "run" /\ ~resp.out.raised
    /\ Len(resp.out.evals) = 2
    /\ PathAbsent(1) /\ resp.out.evals[1].rule.check.lhs = Str(s_dollar_dot \o s_limit)
    /\ resp.out.evals[1].lhs_val = Null /\ resp.out.evals[1].ok = PyFalse
    /\ ~PathAbsent(2) /\ resp.out.evals[2].lhs_val = N02
    /\ resp.out.evals[2].ok = PyFalse
    /\ Len(resp.out.violations) = 2

\* C39: the validation of a fact event that is a FactEvent returns its list
\* of violations and does not raise, whatever the rules of the bundle and the
\* values of the payload are: an ordered comparison of a string that is no
\* number with a number, and a membership test in a value that is no
\* collection, included.
C39_ValidationNeverRaises ==
    (resp.op = "run" /\ FactEventValid(resp.event)) => ~resp.out.raised

-----------------------------------------------------------------------------
(* The handlers of the server, shared by the specifications below *)

\* policy.yaml opened for appending, which keeps what it holds; C22 fails of
\* it.
IngestOpen_Keeping(frames) ==
    /\ wpc = "idle"
    /\ resp = NoResp
    /\ IF \A i \in 1..Len(frames) : ClauseFrameValid(frames[i])
       THEN /\ wrules' = CompileAll(frames)
            /\ policy_yaml' = [policy_yaml EXCEPT !.exists = TRUE]
            /\ wpc' = "opened"
            /\ hist' = [hist EXCEPT !.frames = frames]
            /\ UNCHANGED resp
       ELSE /\ resp' = [op |-> "ingest", stage |-> "compile", status |-> 500,
                        frames |-> frames]
            /\ UNCHANGED <<policy_yaml, wpc, wrules, hist>>
    /\ UNCHANGED <<rules_index, vios, state_json, subs, calls>>

\* node_compile, first step: every frame is made a ClauseFrame, and one that
\* is not valid raises out of node_compile before anything is compiled (the
\* request ends with status 500); else PolicyCompiler.run compiles the frames,
\* and write_policy_bundle opens policy.yaml for writing, which truncates it.
IngestOpen(frames) ==
    /\ wpc = "idle"
    /\ resp = NoResp
    /\ IF \A i \in 1..Len(frames) : ClauseFrameValid(frames[i])
       THEN /\ wrules' = CompileAll(frames)
            /\ policy_yaml' = [exists |-> TRUE, rules |-> <<>>]
            /\ wpc' = "opened"
            /\ hist' = [hist EXCEPT !.frames = frames]
            /\ UNCHANGED resp
       ELSE /\ resp' = [op |-> "ingest", stage |-> "compile", status |-> 500,
                        frames |-> frames]
            /\ UNCHANGED <<policy_yaml, wpc, wrules, hist>>
    /\ UNCHANGED <<rules_index, vios, state_json, subs, calls>>

\* write_policy_bundle, second step: yaml.safe_dump(bundle, f), which writes
\* the rules into the file opened, and the close of the file.
IngestDump ==
    /\ wpc = "opened"
    /\ resp = NoResp
    /\ policy_yaml' = [policy_yaml EXCEPT !.rules = @ \o BundleFile(wrules).rules]
    /\ wpc' = "dumped"
    /\ hist' = [hist EXCEPT !.written = wrules, !.everWritten = TRUE,
                            !.rewritten = @ \/ (hist.everWritten /\ wrules # hist.written)]
    /\ UNCHANGED <<rules_index, vios, state_json, wrules, subs, resp, calls>>

\* write_policy_bundle, second step, when yaml.safe_dump raises before it has
\* written (the bundle cannot be serialized, or the disk takes no byte): the
\* with statement closes the file it truncated, and the exception ends the
\* request with status 500.
IngestDumpFail ==
    /\ wpc = "opened"
    /\ resp = NoResp
    /\ wpc' = "idle"
    /\ resp' = [op |-> "ingest", stage |-> "dump", status |-> 500, rules |-> wrules]
    /\ UNCHANGED <<policy_yaml, rules_index, vios, state_json, wrules, subs, hist, calls>>

\* write_policy_bundle, last step: rules_index.json is written, and the
\* request returns.
IngestIndex ==
    /\ wpc = "dumped"
    /\ resp = NoResp
    /\ rules_index' = [exists |-> TRUE, index |-> build_index(wrules)]
    /\ wpc' = "idle"
    /\ hist' = [hist EXCEPT !.completed = wrules]
    /\ UNCHANGED <<policy_yaml, vios, state_json, wrules, subs, resp, calls>>

\* write_policy_bundle, last step, when json.dump raises before it has
\* written: rules_index.json is left as its open truncated it, policy.yaml
\* holds the bundle dumped, and the exception ends the request with status 500.
IngestIndexFail ==
    /\ wpc = "dumped"
    /\ resp = NoResp
    /\ rules_index' = [exists |-> TRUE, index |-> <<>>]
    /\ wpc' = "idle"
    /\ resp' = [op |-> "ingest", stage |-> "index", status |-> 500, rules |-> wrules]
    /\ UNCHANGED <<policy_yaml, vios, state_json, wrules, subs, hist, calls>>

\* A call of load_rules(); during tells whether a write was under way,
\* written which rules the last write that dumped had been given, if any, and
\* writing which rules the write under way was given.
LoadRules ==
    /\ resp = NoResp
    /\ resp' = [op |-> "load", during |-> wpc, ever |-> hist.everWritten,
                written |-> hist.written, writing |-> wrules,
                rewritten |-> hist.rewritten, out |-> load_rules(policy_yaml)]
    /\ UNCHANGED <<policy_yaml, rules_index, vios, state_json, wpc, wrules, subs, hist, calls>>

\* A call of get_rules_for(event_type, subject)
GetRulesFor(event_type, subject) ==
    /\ resp = NoResp
    /\ resp' = [op |-> "get", during |-> wpc, ever |-> hist.everWritten,
                written |-> hist.written, writing |-> wrules,
                event_type |-> event_type, subject |-> subject,
                out |-> get_rules_for(policy_yaml, event_type, subject)]
    /\ UNCHANGED <<policy_yaml, rules_index, vios, state_json, wpc, wrules, subs, hist, calls>>

\* The caller has its result.  (A result is looked at before the next step is
\* taken: resp holds one result at a time.)
Respond ==
    /\ resp # NoResp
    /\ resp' = NoResp
    /\ UNCHANGED <<policy_yaml, rules_index, vios, state_json, wpc, wrules, subs, hist, calls>>

RECURSIVE JsonDump(_)

\* json.dumps of a value: the text of a scalar, the items of an array, the
\* members of an object
JsonDump(x) ==
    CASE x.t = "null" -> [k |-> "null", text |-> s_null, items |-> <<>>]
      [] x.t = "bool" ->
            [k |-> "bool", items |-> <<>>,
             text |-> IF x.v THEN <<"t", "r", "u", "e">> ELSE <<"f", "a", "l", "s", "e">>]
      [] x.t = "num" -> [k |-> "number", text |-> NumText(x.v), items |-> <<>>]
      [] x.t = "str" -> [k |-> "string", text |-> x.v, items |-> <<>>]
      [] x.t = "list" ->
            [k |-> "array", text |-> <<>>,
             items |-> [i \in 1..Len(x.v) |-> JsonDump(x.v[i])]]
      [] OTHER ->
            [k |-> "object", text |-> <<>>,
             items |-> [f \in DOMAIN x.v |-> JsonDump(x.v[f])]]

RECURSIVE JsonLoad(_)

\* json.loads of what JsonDump gives
JsonLoad(n) ==
    CASE n.k = "null" -> Null
      [] n.k = "bool" -> Bool(n.text = <<"t", "r", "u", "e">>)
      [] n.k = "number" -> ParseFloat(n.text)
      [] n.k = "string" -> Str(n.text)
      [] n.k = "array" -> List([i \in 1..Len(n.items) |-> JsonLoad(n.items[i])])
      [] OTHER -> Dict([f \in DOMAIN n.items |-> JsonLoad(n.items[f])])

\* The fields of a Violation that are dicts of their own.
NestedFields == {"expected", "evidence"}

\* v["summary"] = msg
WithSummary(v, msg) ==
    [f \in DOMAIN v \cup {"summary"} |-> IF f = "summary" THEN msg ELSE v[f]]

\* json.dumps(v) of a violation: one line of violations.jsonl
LedgerLine(v) ==
    [f \in DOMAIN v |->
        IF f = "id" THEN JsonDump(Str(v[f]))
        ELSE IF f \in NestedFields THEN [g \in DOMAIN v[f] |-> JsonDump(v[f][g])]
        ELSE JsonDump(v[f])]

\* json.loads(line) of a ledger line
ParseLine(line) ==
    [f \in DOMAIN line |->
        IF f = "id" THEN JsonLoad(line[f]).v
        ELSE IF f \in NestedFields THEN [g \in DOMAIN line[f] |-> JsonLoad(line[f][g])]
        ELSE JsonLoad(line[f])]

\* A check that lets every event through; C3 fails of it.
HasRequired_Any(event) == TRUE

\* all(k in event for k in ("type", "payload"))
HasRequired(event) == "type" \in DOMAIN event /\ "payload" \in DOMAIN event

\* A ledger opened whatever validation returned; C38 fails of it.
Emits_Always(n) == TRUE

\* if state.get("violations"): a list of n violations that is not empty
Emits(n) == n > 0

\* A ledger opened for writing, which truncates it; C14 fails of it.
Appended_Truncating(lines, new) == new

\* open(VIOS_PATH, "a") and f.write: what is written goes after what the
\* file holds.
Appended(lines, new) == lines \o new

\* The summary Explainer.run returns.
Summaries == {Str(<<"o", "k">>)}

\* post_fact(event).  Without "type" or "payload" the request is refused with
\* 400.  Otherwise node_validate runs the validator and node_explain_emit,
\* when there are violations, opens the ledger for appending, has each
\* violation explained and writes it; the lines reach the file when it is
\* closed.  fail > 0: the explainer raises at the fail-th of the violations,
\* and the lines before it are the ones written.  A raise makes the request
\* end with 500.  validated is what node_validate returned, and before the
\* number of lines the ledger had.
PostFact(event, ids, msg, fail) ==
    /\ resp = NoResp
    /\ IF ~HasRequired(event)
       THEN /\ resp' = [op |-> "post", event |-> event, status |-> 400,
                        violations |-> <<>>]
            /\ UNCHANGED <<vios, hist>>
       ELSE \E out \in {RuleValidator_run(policy_yaml, event, ids)} :
            \E n \in {Len(out.violations)} :
            \E done \in {d \in {IF fail = 0 THEN n ELSE fail - 1} : fail <= n} :
            \E emitted \in {[i \in 1..done |-> WithSummary(out.violations[i], msg)]} :
                /\ Len(vios.lines) + done <= MaxLedger
                /\ resp' = [op |-> "post", event |-> event,
                            status |-> IF out.raised \/ fail > 0 THEN 500 ELSE 200,
                            violations |-> IF out.raised \/ fail > 0 THEN <<>> ELSE emitted,
                            validated |-> out.violations, before |-> Len(vios.lines)]
                /\ IF ~Emits(n) THEN UNCHANGED <<vios, hist>>
                   ELSE /\ vios' = [exists |-> TRUE,
                                    lines |-> Appended(vios.lines,
                                                 [i \in 1..done |-> LedgerLine(emitted[i])])]
                        /\ hist' = [hist EXCEPT !.appended = @ \o emitted]
    /\ UNCHANGED <<policy_yaml, rules_index, state_json, wpc, wrules, subs, calls>>

\* _load_state(): {} when violations_state.json does not exist
_load_state == IF state_json.exists THEN state_json.map ELSE <<>>

\* state.get(vid, "OPEN")
StatusOf(state, vid) == IF vid \in DOMAIN state THEN state[vid] ELSE "OPEN"

\* The first rows in place of the last; C9 fails of it.
PySlice_Head(rows, limit) ==
    SubSeq(rows, 1, IF limit > 0 /\ limit < Len(rows) THEN limit ELSE Len(rows))

\* rows[-limit:]: the last limit rows for limit > 0, every row for limit = 0,
\* and the rows after the first -limit for limit < 0
PySlice(rows, limit) ==
    LET n == Len(rows)
        from == IF limit > 0 THEN (IF limit >= n THEN 0 ELSE n - limit)
                ELSE IF limit = 0 THEN 0
                ELSE (IF 0 - limit >= n THEN n ELSE 0 - limit)
    IN  SubSeq(rows, from + 1, n)

\* list_violations(limit)
ListViolations(limit) ==
    /\ resp = NoResp
    /\ LET Merged(rows, state) ==
               [i \in 1..Len(rows) |->
                   [f \in DOMAIN rows[i] \cup {"status"} |->
                       IF f = "status" THEN StatusOf(state, rows[i].id) ELSE rows[i][f]]]
           Lines(lines) == Merged([i \in 1..Len(lines) |-> ParseLine(lines[i])], _load_state)
       IN  resp' = [op |-> "list", limit |-> limit, appended |-> hist.appended,
                    set |-> hist.set,
                    rows |-> PySlice(Lines(IF vios.exists THEN vios.lines ELSE <<>>), limit)]
    /\ UNCHANGED <<policy_yaml, rules_index, vios, state_json, wpc, wrules, subs, hist, calls>>

\* state[vid] = status
WithStatus(state, vid, status) ==
    [v \in DOMAIN state \cup {vid} |-> IF v = vid THEN status ELSE state[v]]

\* (body or {}).get("status"): "None" stands for None
BodyStatus(body) == IF "status" \in DOMAIN body THEN body.status ELSE "None"

\* Every status taken; C25 fails of it.
StatusAllowed_Any(status) == TRUE

\* status in ("OPEN", "ACK", "RESOLVED")
StatusAllowed(status) == status \in {"OPEN", "ACK", "RESOLVED"}

\* set_violation_status(vid, body)
SetStatus(vid, body) ==
    /\ resp = NoResp
    /\ IF ~StatusAllowed(BodyStatus(body))
       THEN /\ resp' = [op |-> "status", status |-> 400, vid |-> vid, body |-> body]
            /\ UNCHANGED state_json
       ELSE /\ state_json' = [exists |-> TRUE,
                               map |-> WithStatus(_load_state, vid, BodyStatus(body))]
            /\ resp' = [op |-> "status", status |-> 200, vid |-> vid, body |-> body]
    /\ hist' = [hist EXCEPT !.set = IF resp'.status = 200
                                    THEN WithStatus(@, vid, BodyStatus(body)) ELSE @]
    /\ UNCHANGED <<policy_yaml, rules_index, vios, wpc, wrules, subs, calls>>

\* A start at the head of the ledger whatever tail is; C12 fails of it.
StartPos_Begin(tail, size) == 0

\* A start at the end of the ledger whatever tail is; C10 fails of it.
StartPos_End(tail, size) == size

\* if last_pos == 0: last_pos = size if tail else 0
StartPos(tail, size) == IF tail THEN size ELSE 0

\* stream_violations(tail): the connection is made and the generator starts.
\* at remembers how many lines the ledger had.
Subscribe(s, tail) ==
    /\ subs[s].pc = "off"
    /\ subs' = [subs EXCEPT ![s] = [SubOff EXCEPT !.pc = "poll", !.tail = tail,
                                                 !.at = Len(vios.lines)]]
    /\ UNCHANGED <<policy_yaml, rules_index, vios, state_json, wpc, wrules, resp, hist, calls>>

\* One last_pos for every connection; C26 fails of it.
SubStat_Shared(s) ==
    /\ subs[s].pc = "poll"
    /\ vios.exists
    /\ LET size == Len(vios.lines)
           last_pos == IF subs[s].last_pos = 0 THEN StartPos(subs[s].tail, size)
                       ELSE subs[s].last_pos
       IN  subs' = [t \in DOMAIN subs |->
                      IF t = s
                      THEN [subs[t] EXCEPT !.size = size, !.last_pos = last_pos,
                                           !.started = TRUE,
                                           !.pc = IF size > last_pos THEN "read"
                                                  ELSE "poll"]
                      ELSE [subs[t] EXCEPT !.last_pos = last_pos]]
    /\ UNCHANGED <<policy_yaml, rules_index, vios, state_json, wpc, wrules, resp, hist, calls>>

\* event_gen, the head of one turn of its loop: when the ledger exists, its
\* size is taken, and last_pos, while it is 0, is set from tail.
SubStat(s) ==
    /\ subs[s].pc = "poll"
    /\ vios.exists
    /\ LET size == Len(vios.lines)
           last_pos == IF subs[s].last_pos = 0 THEN StartPos(subs[s].tail, size)
                       ELSE subs[s].last_pos
       IN  subs' = [subs EXCEPT ![s] = [@ EXCEPT !.size = size, !.last_pos = last_pos,
                                                 !.started = TRUE,
                                                 !.pc = IF size > last_pos THEN "read"
                                                        ELSE "poll"]]
    /\ UNCHANGED <<policy_yaml, rules_index, vios, state_json, wpc, wrules, resp, hist, calls>>

\* event_gen, the rest of the turn: the file is read from last_pos to its end
\* as it is by now, each line is yielded, and last_pos becomes the size taken.
SubRead(s) ==
    /\ subs[s].pc = "read"
    /\ subs' = [subs EXCEPT ![s] =
                  [@ EXCEPT !.out = @ \o SubSeq(vios.lines, subs[s].last_pos + 1,
                                                Len(vios.lines)),
                            !.seen = @ \o [i \in 1..(Len(vios.lines) - subs[s].last_pos)
                                              |-> subs[s].last_pos + i],
                            !.last_pos = subs[s].size,
                            !.pc = "poll"]]
    /\ UNCHANGED <<policy_yaml, rules_index, vios, state_json, wpc, wrules, resp, hist, calls>>

-----------------------------------------------------------------------------
(* SpecStore: bundles are compiled and written, loaded and queried. *)

\* Values whose YAML text another type could claim, next to plain ones.
StoreValues ==
    {Null, N0175, Num(5 * Scale), Bool(TRUE), Str(s_175), Str(s_175pct), Str(s_null),
     Str(s_yes), Str(s_130), Str(s_a_colon_b), Str(s_space_a), Str(s_date), Str(<<>>),
     List(<<Str(s_sic7372), Str(s_1311)>>), List(<<>>)}

FeeFrame(id, subject, value) ==
    Frame(id, subject, s_pay, Str(s_management_fee), Str(s_lte), value, Null)

SectorFrame(id, subject) ==
    Frame(id, subject, s_prohibit, Str(s_sector), Str(s_not_in),
          List(<<Str(s_sic7372)>>), Null)

NoticeFrame(id, subject) ==
    Frame(id, subject, s_notify, Str(s_notice), Str(s_requires), Null, Null)

\* The empty bundle; one rule with every value; one rule with other
\* subjects, comparators and units; and bundles of two and three rules that
\* share an event type, a subject, both or neither, or the id of their
\* clauses.
StoreBatches ==
    {<<>>}
    \cup {<<FeeFrame(s_c1, Subject1, v)>> : v \in StoreValues}
    \cup {<<Frame(s_c1, sj, s_limit, Null, c, N0175, u)>> :
            sj \in {Str(s_123), Str(s_yes)}, c \in {Null, Str(s_LTE)},
            u \in {Null, Str(s_pct)}}
    \cup {<<FeeFrame(s_c1, Subject1, N0175), FeeFrame(s_c2, Subject2, N018)>>,
          <<FeeFrame(s_c1, Subject1, N0175), SectorFrame(s_c2, Subject1)>>,
          <<FeeFrame(s_c1, Subject1, N0175), FeeFrame(s_c2, Subject1, N018)>>,
          <<FeeFrame(s_c2, Subject1, N018), FeeFrame(s_c1, Subject1, N0175)>>,
          <<NoticeFrame(s_c1, Subject1), FeeFrame(s_c2, Subject2, N0175)>>,
          <<FeeFrame(s_c1, Subject1, N0175), SectorFrame(s_c1, Subject2)>>,
          <<FeeFrame(s_c1, Subject1, N0175), SectorFrame(s_c2, Subject2),
            FeeFrame(s_c3, Subject1, Str(s_175pct))>>}

StoreEventTypes ==
    {Str(s_fee_post), Str(s_trade_allocated), Str(s_amendment_ingested),
     Str(s_data_event), Str(s_nothing)}

StoreSubjects == {Subject1, Subject2, Str(s_123), Str(s_UNKNOWN)}

\* The start of the server: no bundle, no ledger, no status overlay.
Init ==
    /\ policy_yaml = NoFile
    /\ rules_index = NoIndex
    /\ vios = NoLedger
    /\ state_json = NoState
    /\ wpc = "idle"
    /\ wrules = <<>>
    /\ subs = NoSubs
    /\ resp = NoResp
    /\ hist = NoHist
    /\ calls = NoCalls

NextStore ==
    \/ \E frames \in StoreBatches : IngestOpen(frames)
    \/ IngestDump
    \/ IngestIndex
    \/ LoadRules
    \/ \E e \in StoreEventTypes : \E sj \in StoreSubjects : GetRulesFor(e, sj)
    \/ Respond

SpecStore == Init /\ [][NextStore]_vars

\* The rules among rules whose on_events hold e and whose selector names s.
Matching(rules, e, s) ==
    SelectSeq(rules, LAMBDA r : /\ \E i \in 1..Len(r.on_events.v) : r.on_events.v[i] = e
                                /\ r.selector.subject_eq = s)

\* C6: once a bundle has been written, get_rules_for(e, s) returns exactly
\* the written rules r with e in r.on_events and r's selector subject equal
\* to s, each of them and no other, and nothing when no rule matches.
C6_RulesForPair ==
    (resp.op = "get" /\ resp.during = "idle" /\ resp.ever)
    => /\ ~resp.out.raised
       /\ resp.out.rules = Matching(resp.written, resp.event_type, resp.subject)

\* Of a bundle of three rules, the two that match (fee_post, Inst A) have been
\* returned and the third has not.
C6_Witness ==
    /\ resp.op = "get" /\ resp.during = "idle"
    /\ Len(resp.written) = 3
    /\ resp.event_type = Str(s_fee_post) /\ resp.subject = Subject1
    /\ Len(resp.out.rules) = 2

\* C7: loading a bundle after it has been written, with no write in between,
\* returns rules equal field for field, and in the same order, to the rules
\* written.
C7_WriteLoadRoundTrip ==
    (resp.op = "load" /\ resp.during = "idle" /\ resp.ever)
    => /\ ~resp.out.raised
       /\ resp.out.rules = resp.written

\* A bundle of two rules has been loaded; and so has a rule whose rhs is the
\* string "1.75".
C7_Witness ==
    /\ resp.op = "load" /\ resp.during = "idle"
    /\ ~resp.out.raised
    /\ \/ Len(resp.out.rules) = 2 /\ resp.out.rules[1].id # resp.out.rules[2].id
       \/ Len(resp.out.rules) = 1 /\ resp.out.rules[1].check.rhs = Str(s_175)

\* C22: with no write under way, load_rules returns the rules of the last
\* write_policy_bundle that finished and no rule of a write before it, and
\* get_rules_for those of them that match; before any write both return no
\* rule.
C22_LoadsLatest ==
    /\ (resp.op = "load" /\ resp.during = "idle")
       => /\ ~resp.out.raised
          /\ resp.out.rules = (IF resp.ever THEN resp.written ELSE <<>>)
    /\ (resp.op = "get" /\ resp.during = "idle")
       => /\ ~resp.out.raised
          /\ resp.out.rules =
                (IF resp.ever
                 THEN Matching(resp.written, resp.event_type, resp.subject) ELSE <<>>)

\* load_rules has returned the one rule of the last write, which was written
\* over a bundle of other rules.
C22_Witness ==
    /\ resp.op = "load" /\ resp.during = "idle"
    /\ resp.rewritten
    /\ Len(resp.written) = 1
    /\ resp.out.rules = resp.written

\* C36: when a batch of n frames has been compiled and written, the bundle
\* holds n rules, the i-th with the id "R-" and the id of the i-th frame, and
\* no two rules of the bundle have the same id.
C36_OneRulePerClause ==
    (wpc = "idle" /\ hist.everWritten)
    => /\ ~load_rules(policy_yaml).raised
       /\ Len(load_rules(policy_yaml).rules) = Len(hist.frames)
       /\ \A i \in 1..Len(hist.frames) :
             load_rules(policy_yaml).rules[i].id = Str(<<"R", "-">> \o hist.frames[i].id.v)
       /\ \A i, j \in 1..Len(load_rules(policy_yaml).rules) :
             i # j => load_rules(policy_yaml).rules[i].id # load_rules(policy_yaml).rules[j].id

\* C17: a call of load_rules or get_rules_for that runs while
\* write_policy_bundle is under way gets the whole rule set the bundle held
\* before the write or the whole rule set being written (get_rules_for: the
\* rules of it that match), never an empty or partly written bundle.
C17_OldOrNewBundle ==
    /\ (resp.op = "load" /\ resp.during # "idle")
       => /\ ~resp.out.raised
          /\ resp.out.rules \in {resp.written, resp.writing}
    /\ (resp.op = "get" /\ resp.during # "idle")
       => /\ ~resp.out.raised
          /\ resp.out.rules \in {Matching(resp.written, resp.event_type, resp.subject),
                                 Matching(resp.writing, resp.event_type, resp.subject)}

\* C18: in every state in which the bundle file and the index file exist
\* they are of one generation: the index is build_index of the rules in the
\* bundle.
C18_SameGeneration ==
    (policy_yaml.exists /\ rules_index.exists)
    => /\ ~load_rules(policy_yaml).raised
       /\ rules_index.index = build_index(load_rules(policy_yaml).rules)

-----------------------------------------------------------------------------
(* SpecCompile: batches of frames reach node_compile, some with a frame that *)
(* is no ClauseFrame, and a write of the bundle or of the index may fail.    *)

\* A frame whose subject is missing, and one whose id is missing.
NoSubjectFrame == [FeeFrame(s_c2, Subject1, N018) EXCEPT !.subject = Null]
NoIdFrame == [FeeFrame(s_c2, Subject1, N018) EXCEPT !.id = Null]

\* Batches of well-formed frames, and batches that hold a malformed frame
\* before, after and next to well-formed ones.
CompileBatches ==
    {<<>>,
     <<FeeFrame(s_c1, Subject1, N0175)>>,
     <<FeeFrame(s_c1, Subject1, N0175), SectorFrame(s_c2, Subject2)>>,
     <<FeeFrame(s_c1, Subject1, N0175), NoSubjectFrame>>,
     <<NoIdFrame, FeeFrame(s_c1, Subject1, N0175)>>,
     <<NoSubjectFrame>>,
     <<FeeFrame(s_c1, Subject1, N0175), NoIdFrame, SectorFrame(s_c3, Subject2)>>}

NextCompile ==
    \/ \E frames \in CompileBatches : IngestOpen(frames)
    \/ IngestDump
    \/ IngestDumpFail
    \/ IngestIndex
    \/ IngestIndexFail
    \/ LoadRules
    \/ Respond

SpecCompile == Init /\ [][NextCompile]_vars

C24_FailedWriteKeepsPrevious ==
    (resp.op = "ingest" /\ resp.stage \in {"dump", "index"})
    => /\ ~load_rules(policy_yaml).raised
       /\ load_rules(policy_yaml).rules = hist.completed

-----------------------------------------------------------------------------
(* SpecDsl: rule_from_clause is applied to one clause frame at a time, the  *)
(* frames differing in obligation, attribute and comparator.                *)

\* Obligations and attributes with each keyword of _guess_event, with two
\* keywords and with none; an attribute may be missing.
DslObligations ==
    {s_pay, s_report, s_prohibit, s_notify, s_limit, s_deadline, s_sector, s_notice,
     s_management_fee}

DslAttributes ==
    {Null, Str(s_management_fee), Str(s_report), Str(s_deadline), Str(s_sector),
     Str(s_allocation), Str(s_notice), Str(s_prohibit), Str(s_notify), Str(s_limit)}

\* Comparators: missing, empty, and lte in lower and in upper case.
DslComparators == {Null, Str(<<>>), Str(s_lte), Str(s_LTE)}

DslFrames ==
    {Frame(s_c1, Subject1, ob, attr, c, N0175, Null) :
        ob \in DslObligations, attr \in DslAttributes, c \in DslComparators}

\* rule_from_clause(cf), for a frame handed to PolicyCompiler.run
Compile(cf) ==
    /\ resp = NoResp
    /\ resp' = [op |-> "compile", cf |-> cf, rule |-> rule_from_clause(cf)]
    /\ UNCHANGED <<policy_yaml, rules_index, vios, state_json, wpc, wrules, subs, hist, calls>>

NextDsl ==
    \/ \E cf \in DslFrames : Compile(cf)
    \/ Respond

SpecDsl == Init /\ [][NextDsl]_vars

\* The keyword k is in the obligation or in the attribute of the frame
\* compiled, read in lower case.
Keyword(k) ==
    \/ SubStr(k, Lower(OrEmpty(resp.cf.obligation)))
    \/ SubStr(k, Lower(OrEmpty(resp.cf.attribute)))

\* C34: the event types of a compiled rule follow the keyword table, every
\* keyword looked for in the obligation and in the attribute alike, and an
\* earlier row going before a later one.
C34_EventsByKeyword ==
    resp.op = "compile"
    => resp.rule.on_events =
          List(IF Keyword(s_fee) THEN <<Str(s_fee_post)>>
               ELSE IF Keyword(s_report) \/ Keyword(s_deadline)
                    THEN <<Str(s_report_delivered)>>
               ELSE IF Keyword(s_prohibit) \/ Keyword(s_sector) \/ Keyword(s_allocation)
                    THEN <<Str(s_trade_allocated)>>
               ELSE IF Keyword(s_notify) \/ Keyword(s_notice)
                    THEN <<Str(s_sideletter_ingested), Str(s_amendment_ingested)>>
               ELSE <<Str(s_data_event)>>)

\* C35: every compiled rule has an operator that is not empty, the clause
\* comparator in lower case, or "expr" when the comparator is missing or
\* empty; and a list of event types that is not empty, which is [data_event]
\* when neither the obligation nor the attribute holds a keyword.
C35_OpAndEventsPopulated ==
    resp.op = "compile"
    => /\ resp.rule.check.op.t = "str" /\ resp.rule.check.op.v # <<>>
       /\ resp.rule.check.op.v =
             (IF resp.cf.comparator.t = "str" /\ resp.cf.comparator.v # <<>>
              THEN Lower(resp.cf.comparator.v) ELSE s_expr)
       /\ resp.rule.on_events.t = "list" /\ resp.rule.on_events.v # <<>>
       /\ (\A k \in {s_fee, s_report, s_deadline, s_prohibit, s_sector, s_allocation,
                     s_notify, s_notice} : ~Keyword(k))
          => resp.rule.on_events = List(<<Str(s_data_event)>>)

\* A frame without comparator and without keyword has been compiled into a
\* rule with operator expr on data_event.
C35_Witness ==
    /\ resp.op = "compile"
    /\ resp.cf.comparator = Null
    /\ resp.cf.obligation = Str(s_limit) /\ resp.cf.attribute = Null
    /\ resp.rule.check.op = Str(s_expr)
    /\ resp.rule.on_events = List(<<Str(s_data_event)>>)

-----------------------------------------------------------------------------
(* Spec: the server takes documents, facts, status changes and snapshot reads. *)

N0178 == Num(17800)

\* Two clauses of one subject: the fee is at most 0.0175, and at most 0.018.
SpecBatch == <<FeeFrame(s_c1, Subject1, N0175), FeeFrame(s_c2, Subject1, N018)>>

FeeFact(fee) == Event(Str(s_fee_post), Payload(s_subject, Subject1, s_fee_rate, fee))

\* Facts that break both rules, one rule and none; and dicts without
\* "payload" and without "type".
SpecEvents ==
    {FeeFact(N02), FeeFact(N0178), FeeFact(N015),
     [type |-> Str(s_fee_post)],
     [payload |-> Dict(Payload(s_subject, Subject1, s_fee_rate, N02))]}

\* Bodies with a status of the three, with another status and with none.
StatusBodies == {[status |-> "ACK"], [status |-> "DONE"], [note |-> "ACK"]}

\* limit: int = 200
DefaultLimit == 200

Limits == {0, 1, DefaultLimit, -1}

Next ==
    \/ IngestOpen(SpecBatch)
    \/ IngestDump
    \/ IngestIndex
    \/ \E ev \in SpecEvents : \E ids \in VioIds \X VioIds : \E msg \in Summaries :
          \E fail \in 0..2 : PostFact(ev, ids, msg, fail)
    \/ \E vid \in VioIds : \E body \in StatusBodies : SetStatus(vid, body)
    \/ \E limit \in Limits : ListViolations(limit)
    \/ Respond

Spec == Init /\ [][Next]_vars

\* C3: a fact event without "payload", or without "type", is refused as an
\* input error (400): the call gives no violation, and the ledger and the
\* status overlay are left as they were.
C3_MissingFieldRejected ==
    [][(/\ resp.op # "post" /\ resp'.op = "post"
        /\ "payload" \notin DOMAIN resp'.event \/ "type" \notin DOMAIN resp'.event)
       => /\ resp'.status = 400
          /\ resp'.violations = <<>>
          /\ vios' = vios
          /\ state_json' = state_json]_vars

\* An event without "payload" has been refused while the ledger had entries
\* and the overlay a status.
C3_Witness ==
    /\ resp.op = "post"
    /\ "payload" \notin DOMAIN resp.event
    /\ resp.status = 400
    /\ vios.lines # <<>>
    /\ state_json.exists

\* row without the status list_violations merges into it
StripStatus(row) == [f \in DOMAIN row \ {"status"} |-> row[f]]

\* C9: a snapshot read returns ledger entries in the order in which they were
\* appended, the most recent last: its rows are the last of the entries
\* appended so far, and all of them when limit is 0 or no less than their
\* number.
C9_SnapshotOrder ==
    resp.op = "list" =>
        LET n == Len(resp.rows)
            a == resp.appended
        IN  /\ n <= Len(a)
            /\ \A i \in 1..n : StripStatus(resp.rows[i]) = a[Len(a) - n + i]
            /\ (resp.limit = 0 \/ resp.limit >= Len(a)) => n = Len(a)

\* A snapshot with the default limit has returned two different entries.
C9_Witness ==
    /\ resp.op = "list"
    /\ resp.limit = DefaultLimit
    /\ Len(resp.rows) = 2
    /\ StripStatus(resp.rows[1]) # StripStatus(resp.rows[2])
    /\ StripStatus(resp.rows[2]) = hist.appended[2]

\* C21: for a limit N >= 0 and a ledger of k entries a snapshot returns the
\* last min(N, k) entries of the ledger and no other, so at most N.
C21_LastN ==
    (resp.op = "list" /\ resp.limit >= 0)
    => LET k == Len(resp.appended)
           n == IF resp.limit < k THEN resp.limit ELSE k
       IN  /\ Len(resp.rows) = n
           /\ \A i \in 1..Len(resp.rows) :
                 i <= n => StripStatus(resp.rows[i]) = resp.appended[k - n + i]

\* row without the summary node_explain_emit attaches to it
StripSummary(row) == [f \in DOMAIN row \ {"summary"} |-> row[f]]

\* The entries the ledger holds after its first n lines, as read back.
LedgerAfter(n) == [i \in 1..(Len(vios.lines) - n) |-> ParseLine(vios.lines[n + i])]

\* C15: every violation the validation of a fact returned is in the ledger
\* once the run has ended, once each and in the order validation gave them,
\* after the lines the ledger had, whatever the explanation step did.
C15_ValidatedRecorded ==
    (resp.op = "post" /\ resp.status # 400)
    => /\ Len(LedgerAfter(resp.before)) = Len(resp.validated)
       /\ \A i \in 1..Len(resp.validated) :
             StripSummary(LedgerAfter(resp.before)[i]) = resp.validated[i]

\* C37: every violation has an id of its own: no two lines of the ledger,
\* written by one call or by two, hold the same id.
C37_UniqueViolationIds ==
    \A i, j \in 1..Len(vios.lines) :
        i # j => ParseLine(vios.lines[i]).id # ParseLine(vios.lines[j]).id

\* C38: the ledger and the status overlay are changed apart: a status change
\* that is accepted leaves the ledger as it was, the validation of a fact
\* with its append leaves the overlay as it was, and a fact that gives no
\* violation leaves the ledger as it was (no file is made for it either).
C38_LedgerAndOverlayApart ==
    [][/\ (resp'.op = "status" /\ resp' # resp) => vios' = vios
       /\ (resp'.op = "post" /\ resp' # resp) => state_json' = state_json
       /\ (resp'.op = "post" /\ resp' # resp /\ resp'.status = 200
           /\ resp'.validated = <<>>) => vios' = vios
      ]_vars

\* A status change has been accepted while the ledger holds a line.
C38_ChangedApart ==
    /\ resp.op = "status" /\ resp.status = 200
    /\ vios.exists /\ vios.lines # <<>>
    /\ state_json.exists

\* A fact has been validated against the written bundle and has given no
\* violation, and no ledger is there.
C38_Witness ==
    /\ resp.op = "post" /\ resp.status = 200 /\ resp.validated = <<>>
    /\ FactEventValid(resp.event)
    /\ ~vios.exists
    /\ policy_yaml.exists /\ wpc = "idle"

-----------------------------------------------------------------------------
(* SpecStream: facts are posted against a written bundle while a connection *)
(* to /violations/stream is followed.                                        *)

InitStream ==
    /\ \E rules \in {CompileAll(SpecBatch)} :
          /\ policy_yaml = BundleFile(rules)
          /\ rules_index = [exists |-> TRUE, index |-> build_index(rules)]
          /\ hist = [NoHist EXCEPT !.written = rules, !.everWritten = TRUE]
    /\ vios = NoLedger
    /\ state_json = NoState
    /\ wpc = "idle"
    /\ wrules = <<>>
    /\ subs = NoSubs
    /\ resp = NoResp
    /\ calls = NoCalls

StreamEvents == {FeeFact(N02), FeeFact(N0178)}

\* One turn of the loop of event_gen.
Poll(s) == SubStat(s) \/ SubRead(s)

NextStream ==
    \/ \E ev \in StreamEvents : \E ids \in VioIds \X VioIds : \E msg \in Summaries :
          \E fail \in 0..1 : PostFact(ev, ids, msg, fail)
    \/ Respond
    \/ \E s \in Subscribers : \E tail \in BOOLEAN : Subscribe(s, tail)
    \/ \E s \in Subscribers : SubStat(s)
    \/ \E s \in Subscribers : SubRead(s)

\* The event loop keeps running the generator of a connection.
SpecStream ==
    InitStream /\ [][NextStream]_vars /\ \A s \in Subscribers : WF_vars(Poll(s))

\* What a replay connection has been sent starts with the entries the ledger
\* had when the connection was made, in ledger order.
ReplayedFirst(s) ==
    (subs[s].pc # "off" /\ ~subs[s].tail /\ subs[s].out # <<>>)
    => /\ Len(subs[s].out) >= subs[s].at
       /\ \A i \in 1..subs[s].at : subs[s].out[i] = vios.lines[i]

\* A replay connection made when the ledger had entries; and one that has
\* been sent as many entries as the ledger had then.
Replaying(s) == subs[s].pc # "off" /\ ~subs[s].tail /\ subs[s].at > 0
Replayed(s) == Len(subs[s].out) >= subs[s].at

\* C10: a connection made with tail=false is sent every entry the ledger had
\* when it was made, in ledger order, before any entry appended later.
C10_ReplayDelivers ==
    /\ [](\A s \in Subscribers : ReplayedFirst(s))
    /\ \A s \in Subscribers : Replaying(s) ~> Replayed(s)

\* A replay connection made when the ledger had one entry has been sent that
\* entry and then one appended later.
C10_Witness ==
    \E s \in Subscribers :
        /\ ~subs[s].tail /\ subs[s].at = 1
        /\ Len(subs[s].out) = 2
        /\ subs[s].out[1] = vios.lines[1]
        /\ subs[s].out[2] = vios.lines[2]

\* The positions in the ledger of the entries connection s has been sent.
Delivered(s) == {subs[s].seen[k] : k \in 1..Len(subs[s].seen)}

\* C11: no ledger entry is sent twice on one connection, tail or replay,
\* however appends fall between the steps of a turn of event_gen (the size
\* taken, the read from last_pos, last_pos set to the size taken).
C11_NoDoubleDelivery ==
    \A s \in Subscribers :
        \A j, k \in 1..Len(subs[s].seen) : j # k => subs[s].seen[j] # subs[s].seen[k]

\* C12: a connection made with tail=true is sent no entry the ledger had
\* when the connection was made: every entry it is sent was appended later.
C12_TailOnlyLater ==
    \A s \in Subscribers :
        (subs[s].pc # "off" /\ subs[s].tail) => \A i \in Delivered(s) : i > subs[s].at

\* A tail connection made when the ledger had one entry has been sent the
\* entry appended after that, and nothing else.
C12_Witness ==
    \E s \in Subscribers :
        /\ subs[s].tail /\ subs[s].at = 1
        /\ subs[s].seen = <<2>>
        /\ subs[s].out = <<vios.lines[2]>>

\* C13: every entry appended after a connection was made, tail or replay, is
\* sent on it in the end while its loop keeps running, whatever the ledger
\* held when the connection was made.
C13_AppendedDelivered ==
    \A s \in Subscribers : \A i \in 1..MaxLedger :
        (subs[s].pc # "off" /\ subs[s].at < i /\ i <= Len(vios.lines))
            ~> (i \in Delivered(s))

\* C27: in one turn of event_gen a connection is sent the ledger lines
\* between its watermark and the size it took, each as one item and whole,
\* and no other line; after the turn its watermark is the size it took,
\* however appends fall between the size taken and the read.
C27_ReadsObservedRange ==
    [][\A s \in Subscribers :
          (subs[s].pc = "read" /\ subs'[s].pc = "poll")
          => /\ subs'[s].seen =
                   subs[s].seen \o [i \in 1..(subs[s].size - subs[s].last_pos)
                                       |-> subs[s].last_pos + i]
             /\ subs'[s].out =
                   subs[s].out \o SubSeq(vios.lines, subs[s].last_pos + 1, subs[s].size)
             /\ subs'[s].last_pos = subs[s].size
      ]_vars

\* C40: the watermark of a connection never goes back and is never beyond
\* the size of the ledger; and once a turn of a tail connection has set the
\* watermark it starts from, the head of a later turn leaves the watermark as
\* it is: the watermark moves on in the read of a turn and nowhere else.
C40_WatermarkMonotone ==
    [][\A s \in Subscribers :
          /\ subs'[s].last_pos >= subs[s].last_pos
          /\ subs'[s].last_pos <= Len(vios'.lines)
          /\ (subs[s].tail /\ subs[s].started /\ subs[s].pc = "poll")
             => subs'[s].last_pos = subs[s].last_pos
      ]_vars

-----------------------------------------------------------------------------
(* SpecLedger: every operation of the server that is given the ledger's     *)
(* path or runs next to one that is: documents, facts, status changes,       *)
(* snapshot reads and a connection to /violations/stream.                    *)

NextLedger ==
    \/ IngestOpen(SpecBatch)
    \/ IngestDump
    \/ IngestIndex
    \/ \E ev \in StreamEvents : \E ids \in VioIds \X VioIds : \E msg \in Summaries :
          \E fail \in 0..1 : PostFact(ev, ids, msg, fail)
    \/ \E vid \in VioIds : \E body \in StatusBodies : SetStatus(vid, body)
    \/ ListViolations(DefaultLimit)
    \/ Respond
    \/ \E s \in Subscribers : \E tail \in BOOLEAN : Subscribe(s, tail)
    \/ \E s \in Subscribers : SubStat(s)
    \/ \E s \in Subscribers : SubRead(s)

SpecLedger == Init /\ [][NextLedger]_vars

\* a is the head of b.
IsPrefix(a, b) == Len(a) <= Len(b) /\ SubSeq(b, 1, Len(a)) = a

\* C14: the ledger is append-only: no step of a fact validation, a status
\* change, a snapshot read, a subscription or a rule compilation removes the
\* ledger or changes or drops a line it holds; its content extends what it
\* was in every earlier state.
C14_AppendOnly ==
    [][/\ vios.exists => vios'.exists
       /\ IsPrefix(vios.lines, vios'.lines)]_vars

\* The ledger holds two entries of two facts after a status was set, the
\* bundle was written again and the first entry was sent on a connection,
\* and a snapshot is read.
C14_Witness ==
    /\ Len(vios.lines) = 2
    /\ vios.lines = [i \in 1..2 |-> LedgerLine(hist.appended[i])]
    /\ hist.appended[1].id # hist.appended[2].id
    /\ state_json.exists
    /\ wpc = "dumped"
    /\ \E s \in Subscribers : subs[s].seen = <<1>>
    /\ resp.op = "list"

\* C25: a status change whose status is none of OPEN, ACK and RESOLVED, or
\* is missing, is answered 400 and leaves the overlay as it was; and a step
\* changes the overlay only when it is a status change answered 200 whose
\* status is one of the three: no ingest, fact, snapshot read or step of a
\* subscription changes it.
C25_OverlayByStatusChangeOnly ==
    [][/\ (resp'.op = "status" /\ resp' # resp
           /\ ~("status" \in DOMAIN resp'.body
                /\ resp'.body.status \in {"OPEN", "ACK", "RESOLVED"}))
          => (resp'.status = 400 /\ state_json' = state_json)
       /\ state_json' # state_json
          => /\ resp'.op = "status" /\ resp' # resp /\ resp'.status = 200
             /\ "status" \in DOMAIN resp'.body
             /\ resp'.body.status \in {"OPEN", "ACK", "RESOLVED"}
             /\ state_json'.map = WithStatus(state_json.map, resp'.vid, resp'.body.status)
      ]_vars

\* A status change with the status DONE has been answered 400 while the
\* overlay holds a status set before.
C25_Witness ==
    /\ resp.op = "status" /\ resp.status = 400
    /\ resp.body = [status |-> "DONE"]
    /\ state_json.exists /\ DOMAIN state_json.map # {}
    /\ hist.appended # <<>>

-----------------------------------------------------------------------------
(* SpecCalls: post_fact and set_violation_status are sync handlers, which    *)
(* the server runs in its thread pool: two requests are followed statement   *)
(* by statement, next to snapshot reads.  No statement of either handler     *)
(* takes a lock.                                                             *)

\* The lines that calls in progress are still to put into the ledger.
Pending == [c \in Callers |-> Len(calls[c].todo) + Len(calls[c].buf)]

RECURSIVE SumOver(_, _)
SumOver(f, S) ==
    IF S = {} THEN 0 ELSE LET c == CHOOSE c \in S : TRUE IN f[c] + SumOver(f, S \ {c})

\* post_fact up to the end of node_validate: the violations are in the graph
\* state.  Without violations node_explain_emit writes nothing and the
\* request ends; so it does when the validator raises.
PostBegin(c, event, ids) ==
    /\ resp = NoResp
    /\ calls[c].pc = "off"
    /\ \E out \in {RuleValidator_run(policy_yaml, event, ids)} :
          /\ Len(vios.lines) + SumOver(Pending, Callers) + Len(out.violations) <= MaxLedger
          /\ calls' = IF out.raised \/ out.violations = <<>> THEN calls
                      ELSE [calls EXCEPT ![c] = [CallOff EXCEPT !.pc = "open",
                                                               !.todo = out.violations]]
    /\ UNCHANGED <<policy_yaml, rules_index, vios, state_json, wpc, wrules, subs, resp, hist>>

\* with open(VIOS_PATH, "a") as f: the file is there from now on.
PostOpen(c) ==
    /\ resp = NoResp
    /\ calls[c].pc = "open"
    /\ vios' = [vios EXCEPT !.exists = TRUE]
    /\ calls' = [calls EXCEPT ![c].pc = "write"]
    /\ UNCHANGED <<policy_yaml, rules_index, state_json, wpc, wrules, subs, resp, hist>>

\* One turn of the loop of node_explain_emit: explainer.run(v), the summary
\* and f.write of the line, which stays in the buffer of the file object (a
\* flush before the close takes more than io.DEFAULT_BUFFER_SIZE characters).
\* fail: the explainer raises, and the with statement goes on to the close.
PostWrite(c, msg, fail) ==
    /\ resp = NoResp
    /\ calls[c].pc = "write"
    /\ IF fail
       THEN /\ calls' = [calls EXCEPT ![c].pc = "close", ![c].todo = <<>>]
            /\ UNCHANGED hist
       ELSE \E v \in {WithSummary(Head(calls[c].todo), msg)} :
               /\ calls' = [calls EXCEPT ![c].buf = @ \o <<LedgerLine(v)>>,
                                         ![c].todo = Tail(@),
                                         ![c].pc = IF Len(calls[c].todo) = 1
                                                   THEN "close" ELSE "write"]
               /\ hist' = [hist EXCEPT !.appended = @ \o <<v>>]
    /\ UNCHANGED <<policy_yaml, rules_index, vios, state_json, wpc, wrules, subs, resp>>

\* The close of the file: the buffer goes to the end of the file in one
\* write, and the request returns.
PostClose(c) ==
    /\ resp = NoResp
    /\ calls[c].pc = "close"
    /\ vios' = [vios EXCEPT !.lines = Appended(@, calls[c].buf)]
    /\ calls' = [calls EXCEPT ![c] = CallOff]
    /\ UNCHANGED <<policy_yaml, rules_index, state_json, wpc, wrules, subs, resp, hist>>

\* set_violation_status up to state = _load_state().  A status that is none
\* of the three ends the request with 400.
StatusLoad(c, vid, body) ==
    /\ resp = NoResp
    /\ calls[c].pc = "off"
    /\ calls' = IF StatusAllowed(BodyStatus(body))
                THEN [calls EXCEPT ![c] = [CallOff EXCEPT !.pc = "save", !.vid = vid,
                                                         !.status = BodyStatus(body),
                                                         !.state = _load_state]]
                ELSE calls
    /\ UNCHANGED <<policy_yaml, rules_index, vios, state_json, wpc, wrules, subs, resp, hist>>

\* state[vid] = status; _save_state(state), and the request returns.
StatusSave(c) ==
    /\ resp = NoResp
    /\ calls[c].pc = "save"
    /\ state_json' = [exists |-> TRUE,
                      map |-> WithStatus(calls[c].state, calls[c].vid, calls[c].status)]
    /\ hist' = [hist EXCEPT !.set = WithStatus(@, calls[c].vid, calls[c].status)]
    /\ calls' = [calls EXCEPT ![c] = CallOff]
    /\ UNCHANGED <<policy_yaml, rules_index, vios, wpc, wrules, subs, resp>>

\* Facts that break one rule, both rules and no rule of the bundle.
CallEvents == {FeeFact(N0178), FeeFact(N02), FeeFact(N015)}

\* Bodies with a status of the three and with another one.
CallBodies == {[status |-> "ACK"], [status |-> "DONE"]}

\* The ids uuid4 gives the violations of one run.
CallIds == {ids \in VioIds \X VioIds : ids[1] # ids[2]}

NextCalls ==
    \/ \E c \in Callers : \E ev \in CallEvents : \E ids \in CallIds : PostBegin(c, ev, ids)
    \/ \E c \in Callers : PostOpen(c)
    \/ \E c \in Callers : \E msg \in Summaries : \E fail \in BOOLEAN : PostWrite(c, msg, fail)
    \/ \E c \in Callers : PostClose(c)
    \/ \E c \in Callers : \E vid \in VioIds : \E body \in CallBodies : StatusLoad(c, vid, body)
    \/ \E c \in Callers : StatusSave(c)
    \/ ListViolations(DefaultLimit)
    \/ Respond

SpecCalls == InitStream /\ [][NextCalls]_vars

\* No request is inside node_explain_emit; none is inside
\* set_violation_status.
NoPostUnderWay == \A c \in Callers : calls[c].pc \notin {"open", "write", "close"}
NoStatusUnderWay == \A c \in Callers : calls[c].pc # "save"

\* C16: appends of several validation calls are serialized: every line of the
\* ledger is one whole violation record that a call wrote, and once the calls
\* have returned the ledger holds the records in the order in which they
\* were written.
C16_AppendsSerialized ==
    /\ \A i \in 1..Len(vios.lines) :
          \E j \in 1..Len(hist.appended) : vios.lines[i] = LedgerLine(hist.appended[j])
    /\ NoPostUnderWay
       => vios.lines = [i \in 1..Len(hist.appended) |-> LedgerLine(hist.appended[i])]

\* C19: no status update is lost: once the status-change calls have returned,
\* the overlay holds, for every violation id, the status the last of the
\* calls for that id to return gave it; so after two calls for different ids
\* it holds both.
C19_NoLostStatus ==
    NoStatusUnderWay
    => \A vid \in DOMAIN hist.set : StatusOf(_load_state, vid) = hist.set[vid]

\* C20: in a snapshot every row has the status that the last status change
\* to return for the row's id set, OPEN when there was none; and it is one of
\* OPEN, ACK, RESOLVED.
C20_SnapshotStatus ==
    resp.op = "list"
    => \A i \in 1..Len(resp.rows) :
          /\ resp.rows[i].status = StatusOf(resp.set, resp.rows[i].id)
          /\ resp.rows[i].status \in {"OPEN", "ACK", "RESOLVED"}

-----------------------------------------------------------------------------
(* SpecSubs: two connections to /violations/stream are followed side by     *)
(* side while a request posts facts, statement by statement.  Nothing makes *)
(* a connection take its next step: one that stalls or is gone is one that  *)
(* takes no step any more.                                                   *)

\* A fact that breaks one rule of the bundle, and its one violation id.
SubsFact == FeeFact(N0178)
SubsIds == <<<<"V", "-", "0", "a">>, <<"V", "-", "0", "b">>>>

NextSubs ==
    \/ PostBegin("c1", SubsFact, SubsIds)
    \/ PostOpen("c1")
    \/ \E msg \in Summaries : PostWrite("c1", msg, FALSE)
    \/ PostClose("c1")
    \/ \E s \in Connections : \E tail \in BOOLEAN : Subscribe(s, tail)
    \/ \E s \in Connections : SubStat(s)
    \/ \E s \in Connections : SubRead(s)

SpecSubs == InitStream /\ [][NextSubs]_vars

\* No step changes the record (last_pos, the size taken, what was yielded)
\* of two connections.
OwnWatermark ==
    [][\A s, t \in Connections : (s # t /\ subs'[s] # subs[s]) => subs'[t] = subs[t]]_vars

\* Whatever the connections are at, a request inside node_explain_emit can
\* take its next statement (the open of the ledger, a write, the close); and
\* whatever the other connection is at, a connection can take the next step
\* of its turn.
NeverBlocked ==
    /\ calls["c1"].pc = "open" => ENABLED PostOpen("c1")
    /\ calls["c1"].pc = "write" => \A msg \in Summaries : ENABLED PostWrite("c1", msg, FALSE)
    /\ calls["c1"].pc = "close" => ENABLED PostClose("c1")
    /\ \A s \in Connections :
          /\ (subs[s].pc = "poll" /\ vios.exists) => ENABLED SubStat(s)
          /\ subs[s].pc = "read" => ENABLED SubRead(s)

\* C26: connections are independent: a step of one connection, and any other
\* step, changes the watermark and the deliveries of one connection at most;
\* and whatever state the other connection stays in, an append to the ledger
\* and the next step of a connection's own turn can be taken.
C26_Independent == OwnWatermark /\ []NeverBlocked

\* Connection s1 has stopped in the middle of its first turn, before it was
\* sent anything, and connection s2, made later, has been sent both entries
\* of the ledger; their watermarks differ.
C26_Witness ==
    /\ subs["s1"].pc = "read" /\ subs["s1"].seen = <<>> /\ ~subs["s1"].tail
    /\ subs["s2"].pc = "poll" /\ subs["s2"].seen = <<1, 2>>
    /\ subs["s2"].last_pos = 2 /\ subs["s1"].last_pos = 0
    /\ Len(vios.lines) = 2

====
